---- MODULE Spec2Model ----
\* Verification model of the host agent's delegation client:
\*   host_agent/tools.py               delegate_task_sync, delegate_task
\*   host_agent/remote_connections.py  RemoteConnections
\* Strings are TLA+ strings; a Python value is a record [ty, s].
EXTENDS Integers, Sequences, FiniteSets, TLC

VARIABLES
    pc,             \* position of the delegation (see PcValues)
    agent_name,     \* argument of delegate_task_sync
    bridge,         \* "none" | "direct" | "worker": branch taken by delegate_task_sync
    outer,          \* "waiting" | "timed_out": state of future.result(timeout=90)
    clients_created,\* httpx.AsyncClient objects constructed
    clients_closed, \* aclose() calls issued
    card_fetches,   \* agent card resolutions issued
    sends,          \* send_message requests issued
    queries,        \* get_task requests issued
    queried,        \* set of task ids named in the get_task requests
    waits,          \* asyncio.sleep(retry_delay) calls issued by the poller
    slept,          \* seconds slept by the poller
    walks,          \* number of times the artifact list was walked
    reply,          \* success_response.result while invoke_agent classifies it
    task_id,        \* argument of _poll_task_completion
    attempt,        \* loop variable of _poll_task_completion
    last,           \* outcome of the latest get_task request
    earlier,        \* summary of the get_task outcomes before the latest one
    invoke_result,  \* dict returned by invoke_agent
    dt_value,       \* value delegate_task is about to return (held across finally)
    dt_out,         \* outcome of delegate_task: returned string or raised exception
    ret,            \* outcome of delegate_task_sync
    caller_loop,    \* the calling thread has a running event loop
    raised,         \* exception caught by an except clause of invoke_agent
    record,         \* the task record of the remote agent, when it is held fixed
    polled,         \* outcomes of the calls of _poll_task_completion that ended
    \* two concurrent calls of delegate_task
    conc_name,      \* agent_name of each call
    conc_remote,    \* what invoke_agent of each call obtains from its remote agent
    conc_pc,        \* position of each call
    conc_client,    \* the httpx client each call created (0: none)
    conc_out,       \* string each call returns
    http_clients,   \* the httpx.AsyncClient objects created: "open" | "closed"
    \* one call of _create_send_message_payload
    pay_pc,         \* "idle" | "call" | "built"
    pay_text,       \* argument text
    pay_task_id,    \* argument task_id
    pay_context_id, \* argument context_id
    payload,        \* the dict returned
    \* one run of main of scripts/start_agents.py
    st_pc,          \* position of main (see StartPcValues)
    with_host,      \* option --with-host
    st_index,       \* index in agents_to_start of the agent started next
    processes,      \* keys of the dict processes, in insertion order
    child,          \* state of the child process of each agent
    signals,        \* signals main has sent to the child of each agent
    st_shut,        \* index in processes.items() of the finally loop
    st_exc,         \* exception that is propagating in main
    \* one run of run_agent_logic_a2a of ui/a2a_app.py
    ui_pc,          \* position of the run (see UiPcValues)
    immediate_responses, \* st.session_state.immediate_responses
    ui_reply,       \* the reply send_message_to_agent received
    ui_task_id,     \* value returned by send_message_to_agent
    ui_attempt,     \* loop variable attempt of poll_for_task_completion
    ui_queries,     \* get_task requests issued
    ui_waits,       \* asyncio.sleep(RETRY_DELAY) calls made
    ui_status,      \* local task_status
    ui_seen,        \* kinds of the get_task outcomes of this run
    ui_results,     \* dict returned by run_agent_logic_a2a
    ui_last,        \* outcome of the latest get_task request of the UI
    current_context_id, \* st.session_state.current_context_id
    ui_payload_ctx, \* contextId of the latest request payload, Absent if omitted
    ui_polls,       \* calls of poll_for_task_completion for ui_task_id
    ui_ctx_received, \* contextId of the latest reply of the session that had one
    \* the two pollers run on one sequence of get_task outcomes
    ref_budget,     \* number of attempts given to both
    ref_outcomes,   \* outcome of the k-th get_task request
    ref_client,     \* run of _poll_task_completion
    ref_ui,         \* run of poll_for_task_completion
    \* concurrent calls of execute on one agent executor
    ex_executor,    \* "notion" | "elevenlabs": the executor that serves the calls
    ex_pc,          \* position of each call (see ExecPcValues)
    ex_context,     \* RequestContext of each call: task_id and context_id
    ex_input,       \* local user_input / query_text of each call
    ex_session_id,  \* local session_id of each call
    ex_found,       \* whether get_session gave the call a session
    ex_text,        \* local final_response_text / final_message_text of each call
    ex_raised,      \* step of each call that raised, "" if none did
    ex_out,         \* "running" | "returned" | "raised": how each call of execute ended
    adk_sessions,   \* session ids held by the session service
    session_creates,\* sessions created per session id
    event_queue,    \* events enqueued on the event queue of each call
    \* one polling loop of a test client
    tc_client,      \* "host" | "notion": the test client that polls
    tc_pc,          \* position of the loop (see TestPcValues)
    tc_attempt,     \* loop variable attempt
    tc_queries,     \* get_task requests issued
    tc_waits,       \* asyncio.sleep(retry_delay) calls made
    tc_slept,       \* seconds slept
    tc_status,      \* local task_status
    tc_terminals    \* get_task responses that showed completed or failed

hostvars ==
    <<pc, agent_name, bridge, outer, clients_created, clients_closed, card_fetches,
      sends, queries, queried, waits, slept, walks, reply, task_id, attempt, last,
      earlier, invoke_result, dt_value, dt_out, ret, caller_loop, raised, record,
      polled>>
concvars == <<conc_name, conc_remote, conc_pc, conc_client, conc_out, http_clients>>

payvars == <<pay_pc, pay_text, pay_task_id, pay_context_id, payload>>

startvars ==
    <<st_pc, with_host, st_index, processes, child, signals, st_shut, st_exc>>

uivars ==
    <<ui_pc, immediate_responses, ui_reply, ui_task_id, ui_attempt, ui_queries,
      ui_waits, ui_status, ui_seen, ui_results, ui_last, current_context_id,
      ui_payload_ctx, ui_polls, ui_ctx_received>>

\* session state and counters of the UI that a single poll leaves alone
uisessvars == <<current_context_id, ui_payload_ctx, ui_polls, ui_ctx_received>>

refvars == <<ref_budget, ref_outcomes, ref_client, ref_ui>>

execvars ==
    <<ex_executor, ex_pc, ex_context, ex_input, ex_session_id, ex_found, ex_text, ex_raised,
      ex_out, adk_sessions, session_creates, event_queue>>

testvars ==
    <<tc_client, tc_pc, tc_attempt, tc_queries, tc_waits, tc_slept, tc_status,
      tc_terminals>>

vars ==
    <<hostvars, concvars, payvars, startvars, uivars, refvars, execvars, testvars>>

\* the variables outside the call of delegate_task_sync
othervars ==
    <<concvars, payvars, startvars, uivars, refvars, execvars, testvars>>
\* the variables outside the concurrent calls of delegate_task
nonconcvars ==
    <<hostvars, payvars, startvars, uivars, refvars, execvars, testvars>>
\* the variables outside the call of _create_send_message_payload
nonpayvars ==
    <<hostvars, concvars, startvars, uivars, refvars, execvars, testvars>>
\* the variables outside the run of start_agents
nonstartvars ==
    <<hostvars, concvars, payvars, uivars, refvars, execvars, testvars>>
\* the variables outside the run of the UI
nonuivars ==
    <<hostvars, concvars, payvars, startvars, refvars, execvars, testvars>>
\* the variables outside the joint run of the two pollers
nonrefvars ==
    <<hostvars, concvars, payvars, startvars, uivars, execvars, testvars>>
\* the variables outside the calls of execute
nonexecvars == <<hostvars, concvars, payvars, startvars, uivars, refvars, testvars>>
\* the variables outside the polling loop of a test client
nontestvars == <<hostvars, concvars, payvars, startvars, uivars, refvars, execvars>>

\* no concurrent calls of delegate_task are under way
ConcIdle ==
    /\ conc_name = <<>>
    /\ conc_remote = <<>>
    /\ conc_pc = <<>>
    /\ conc_client = <<>>
    /\ conc_out = <<>>
    /\ http_clients = <<>>

\* _create_send_message_payload is not being called
PayIdle ==
    /\ pay_pc = "idle"
    /\ pay_text = ""
    /\ pay_task_id = [ty |-> "none", s |-> ""]
    /\ pay_context_id = [ty |-> "none", s |-> ""]
    /\ payload = <<>>

\* start_agents is not running
StartIdle ==
    /\ st_pc = "idle"
    /\ with_host = FALSE
    /\ st_index = 0
    /\ processes = <<>>
    /\ child = <<>>
    /\ signals = <<>>
    /\ st_shut = 0
    /\ st_exc = ""

\* the UI is not running
UiIdle ==
    /\ ui_pc = "idle"
    /\ immediate_responses = <<>>
    /\ ui_reply = <<>>
    /\ ui_task_id = <<>>
    /\ ui_attempt = 0
    /\ ui_queries = 0
    /\ ui_waits = 0
    /\ ui_status = ""
    /\ ui_seen = {}
    /\ ui_results = <<>>
    /\ ui_last = <<>>
    /\ current_context_id = <<>>
    /\ ui_payload_ctx = <<>>
    /\ ui_polls = 0
    /\ ui_ctx_received = <<>>

\* the joint run of the two pollers is not set up
RefIdle ==
    /\ ref_budget = 0
    /\ ref_outcomes = <<>>
    /\ ref_client = <<>>
    /\ ref_ui = <<>>

\* no call of execute is under way
ExecIdle ==
    /\ ex_executor = ""
    /\ ex_pc = <<>>
    /\ ex_context = <<>>
    /\ ex_input = <<>>
    /\ ex_session_id = <<>>
    /\ ex_found = <<>>
    /\ ex_text = <<>>
    /\ ex_raised = <<>>
    /\ ex_out = <<>>
    /\ adk_sessions = {}
    /\ session_creates = <<>>
    /\ event_queue = <<>>

\* no test client is polling
TestIdle ==
    /\ tc_client = ""
    /\ tc_pc = "idle"
    /\ tc_attempt = 0
    /\ tc_queries = 0
    /\ tc_waits = 0
    /\ tc_slept = 0
    /\ tc_status = ""
    /\ tc_terminals = 0

OthersIdle ==
    ConcIdle /\ PayIdle /\ StartIdle /\ UiIdle /\ RefIdle /\ ExecIdle /\ TestIdle

-----------------------------------------------------------------------------
\* Bounds of the model

\* Longest list of inline parts in a send_message reply
MaxReplyParts == 2
\* Largest number of parts over all artifacts of one task record
MaxTotalParts == 1
\* Longest artifact list of a task record polled by the pipeline
MaxPollArtifacts == 1
\* Largest number of parts, and longest artifact list, of a task record that
\* is held fixed while _poll_task_completion is called on it
MaxFixedParts == 2
MaxFixedArtifacts == 2
\* Number of calls of _poll_task_completion on a fixed record
MaxPolls == 2

-----------------------------------------------------------------------------
\* Python values

None == [ty |-> "none", s |-> ""]
Absent == [ty |-> "absent", s |-> ""]
NonStr == [ty |-> "int", s |-> ""]
Str(x) == [ty |-> "str", s |-> x]

\* bool(v): None and "" are falsy; NonStr stands for a truthy non-string object
Truthy(v) == (v.ty = "str" /\ v.s # "") \/ v.ty = "int"
IsStr(v) == v.ty = "str"
\* getattr(obj, name, None) / dict.get(name)
GetOrNone(v) == IF v.ty = "absent" THEN None ELSE v
HasAttr(v) == v.ty # "absent"

\* s contains sub as a contiguous substring
Contains(s, sub) ==
    \E i \in 1..(Len(s) - Len(sub) + 1) : SubSeq(s, i, i + Len(sub) - 1) = sub
StartsWith(s, p) == Len(s) >= Len(p) /\ SubSeq(s, 1, Len(p)) = p

\* sep.join(items) for a sequence of strings
RECURSIVE Join(_, _)
Join(sep, items) ==
    IF Len(items) = 0 THEN ""
    ELSE IF Len(items) = 1 THEN items[1]
    ELSE items[1] \o sep \o Join(sep, Tail(items))

\* str(list_of_strings): "['a', 'b']"
ListRepr(items) ==
    "[" \o Join(", ", [i \in 1..Len(items) |-> "'" \o items[i] \o "'"]) \o "]"

SeqsUpTo(S, n) == UNION {[1..k -> S] : k \in 0..n}

-----------------------------------------------------------------------------
\* host_agent/tools.py: the registry

NOTION_AGENT_A2A_URL == "http://localhost:8002"
ELEVENLABS_AGENT_A2A_URL == "http://localhost:8003"

\* keys of AGENT_URL_MAP in insertion order
AGENT_NAMES == <<"notion_agent", "elevenlabs_agent">>

AGENT_URL_MAP ==
    [n \in {AGENT_NAMES[i] : i \in 1..Len(AGENT_NAMES)} |->
        IF n = "notion_agent" THEN NOTION_AGENT_A2A_URL ELSE ELEVENLABS_AGENT_A2A_URL]

\* mutant: any non-empty name passes the lookup
KnownAgentMut(name) == name # ""

\* agent_name in AGENT_URL_MAP
KnownAgent(name) == name \in DOMAIN AGENT_URL_MAP

UnknownAgentError(name) ==
    "Error: Agent '" \o name \o "' is not a known agent. Available agents are: "
        \o ListRepr(AGENT_NAMES)

\* names a caller may pass
CallerAgentNames == {"notion_agent", "elevenlabs_agent", "weather_agent", ""}

-----------------------------------------------------------------------------
\* Exceptions: [type, msg]; type RuntimeError matters to the sync wrapper

Exc(type, msg) == [type |-> type, msg |-> msg]
\* what httpx.AsyncClient(...) or aclose() may raise
ClientErrors == {Exc("RuntimeError", "Event loop is closed"), Exc("Exception", "boom")}
\* what resolving the card or sending may raise besides httpx.ConnectError
CallErrors == {Exc("Exception", "Read timed out")}
ConnectError == Exc("ConnectError", "All connection attempts failed")
\* what a get_task request may raise
QueryErrors == {Exc("Exception", "Read timed out"), ConnectError}

-----------------------------------------------------------------------------
\* Replies to send_message: success_response.result

\* Results of invoke_agent: a dict with one key
Dict(key, val) == [key |-> key, val |-> val]
NoDict == Dict("", "")
\* result.get(k)
DictGet(d, k) == IF d.key = k THEN Str(d.val) ELSE None

\* an inline part: part.root.text when part has root, part.text otherwise
ReplyPart(hasRoot, rootText, text) ==
    [hasRoot |-> hasRoot, rootText |-> rootText, text |-> text]

ReplyPartKinds ==
    { ReplyPart(TRUE, Str("A"), Absent),    \* Part(root=TextPart(text="A"))
      ReplyPart(FALSE, Absent, Str("B")),   \* object with a direct text attribute
      ReplyPart(TRUE, Absent, Str("")),     \* root without text, empty direct text
      ReplyPart(FALSE, Absent, NonStr) }    \* text attribute that is not a str

\* parts attribute: absent, None/empty, not iterable, or a list
PartsVal(kind, items) == [kind |-> kind, items |-> items]
ReplyPartsVals ==
    {PartsVal("absent", <<>>), PartsVal("noniter", <<>>)}
        \cup {PartsVal("list", ps) : ps \in SeqsUpTo(ReplyPartKinds, MaxReplyParts)}

Reply(kind, parts, text, taskId) ==
    [kind |-> kind, parts |-> parts, text |-> text, taskId |-> taskId]

NoReply == Reply("noreply", PartsVal("absent", <<>>), Absent, Absent)
\* result is None
NoneResult == Reply("none", PartsVal("absent", <<>>), Absent, Absent)
\* result is {} (an empty dict)
EmptyDictResult == Reply("emptydict", PartsVal("absent", <<>>), Absent, Absent)

TaskIdVals == {Absent, NonStr, Str(""), Str("t1"), Str("t2")}

\* a Message-like object, or a plain dict carrying a taskId key
Replies ==
    {Reply("obj", ps, tx, tid) :
        ps \in ReplyPartsVals, tx \in {Absent, Str("T")}, tid \in TaskIdVals}
    \cup {Reply("dict", PartsVal("absent", <<>>), Absent, tid) :
            tid \in TaskIdVals}

\* "not success_response.result"
ResultFalsy(r) == r.kind \in {"none", "emptydict"}

\* text_content of one part (lines 157-164)
PartTextContent(part) ==
    IF part.hasRoot /\ HasAttr(part.rootText) THEN GetOrNone(part.rootText)
    ELSE IF HasAttr(part.text) THEN GetOrNone(part.text)
    ELSE None

\* immediate_results after the loop over parts (lines 154-167)
RECURSIVE ImmediateResults(_)
ImmediateResults(parts) ==
    IF parts = <<>> THEN <<>>
    ELSE LET tc == PartTextContent(Head(parts))
         IN  (IF Truthy(tc) /\ IsStr(tc) THEN <<tc.s>> ELSE <<>>)
                \o ImmediateResults(Tail(parts))

\* mutant: the fragments are joined without the newline
ExtractImmediateResponseMut(r) ==
    IF r.kind = "obj" /\ r.parts.kind = "list" /\ ImmediateResults(r.parts.items) # <<>>
    THEN Str(Join("", ImmediateResults(r.parts.items)))
    ELSE IF r.kind = "obj" /\ r.parts.kind # "noniter" /\ Truthy(r.text)
    THEN Str(r.text.s) ELSE None

\* RemoteConnections._extract_immediate_response
ExtractImmediateResponse(r) ==
    LET hasParts == r.kind = "obj" /\ r.parts.kind \in {"noniter", "list"}
                        /\ (r.parts.kind = "list" => r.parts.items # <<>>)
        topText == IF r.kind = "obj" /\ HasAttr(r.text) /\ Truthy(r.text)
                   THEN Str(r.text.s) ELSE None
    IN  IF hasParts /\ r.parts.kind = "noniter" THEN None   \* TypeError, caught
        ELSE IF hasParts /\ ImmediateResults(r.parts.items) # <<>>
            THEN Str(Join("\n", ImmediateResults(r.parts.items)))
        ELSE topText

\* mutant: the isinstance(task_id_value, str) checks are missing
ExtractTaskIdMut(r) ==
    IF r.kind \in {"obj", "dict"} THEN GetOrNone(r.taskId) ELSE None

\* RemoteConnections._extract_task_id
ExtractTaskId(r) ==
    IF r.kind = "obj" /\ HasAttr(r.taskId)
    THEN (IF IsStr(GetOrNone(r.taskId)) THEN r.taskId ELSE None)
    ELSE IF r.kind = "dict"
    THEN (IF IsStr(GetOrNone(r.taskId)) THEN r.taskId ELSE None)
    ELSE None

-----------------------------------------------------------------------------

-----------------------------------------------------------------------------
\* Task records answered to get_task

\* one part of an artifact; a part that is not a dict is skipped by the walk
PartData(isDict, text, audio_url) ==
    [isDict |-> isDict, text |-> text, audio_url |-> audio_url]

PartDataKinds ==
    { PartData(TRUE, Str("A"), Absent),
      PartData(TRUE, Absent, Str("u1")),
      PartData(TRUE, Str("B"), Str("u2")),
      PartData(TRUE, Str(""), None) }

\* an artifact: a dict whose "parts" is a list, or an object that is not a
\* dict (partsIsList: isinstance(parts_list, list))
Artifact(isDict, partsIsList, parts) ==
    [isDict |-> isDict, partsIsList |-> partsIsList, parts |-> parts]

ArtifactsWith(n) ==
    {Artifact(FALSE, FALSE, <<>>)}
        \cup {Artifact(TRUE, TRUE, ps) : ps \in SeqsUpTo(PartDataKinds, n)}

\* artifact lists of at most j artifacts holding at most n parts in all
RECURSIVE ArtifactListsOf(_, _)
ArtifactListsOf(n, j) ==
    IF j = 0 THEN {<<>>}
    ELSE {<<>>} \cup
         UNION { {<<a>> \o rest : rest \in ArtifactListsOf(n - Len(a.parts), j - 1)} :
                    a \in ArtifactsWith(n) }

\* the artifacts field: None or a list
ArtifactsVal(kind, items) == [kind |-> kind, items |-> items]
NoArtifacts == ArtifactsVal("none", <<>>)
PollArtifacts ==
    {NoArtifacts} \cup
    {ArtifactsVal("list", l) : l \in ArtifactListsOf(MaxTotalParts, MaxPollArtifacts)}

\* outcome of one get_task request:
\*   kind "raise": the request raised exc
\*   kind "nonsuccess": the response is not a GetTaskSuccessResponse
\*   kind "noresult": the response has a falsy result
\*   kind "task": a task record; state "" stands for a falsy status
TaskResponse(kind, exc, state, message, artifacts) ==
    [kind |-> kind, exc |-> exc, state |-> state, message |-> message,
     artifacts |-> artifacts]

NoExc == Exc("", "")
NoResponse == TaskResponse("none", NoExc, "", None, NoArtifacts)
NonTerminalStates == {"submitted", "pending", "running"}
TerminalStates == {"completed", "failed", "canceled"}
StatusMessages == {None, Str(""), Str("bad input"), Str("quota exceeded")}

TaskResponses ==
    {TaskResponse("raise", e, "", None, NoArtifacts) : e \in QueryErrors}
    \cup {TaskResponse("nonsuccess", NoExc, "", None, NoArtifacts),
          TaskResponse("noresult", NoExc, "", None, NoArtifacts)}
    \cup {TaskResponse("task", NoExc, st, None, NoArtifacts) :
            st \in {"", "canceled", "working"} \cup NonTerminalStates}
    \cup {TaskResponse("task", NoExc, "failed", m, NoArtifacts) : m \in StatusMessages}
    \cup {TaskResponse("task", NoExc, "completed", None, a) : a \in PollArtifacts}

\* Summary of a run of get_task outcomes: "pending" when every one was a task
\* in status pending (or there was none), "nonterminal" when every one was a
\* task in status submitted, pending or running, "mixed" otherwise
OutcomeClass(o) ==
    IF o.kind = "none" \/ (o.kind = "task" /\ o.state = "pending") THEN "pending"
    ELSE IF o.kind = "task" /\ o.state \in NonTerminalStates THEN "nonterminal"
    ELSE "mixed"
FoldClass(a, b) ==
    IF a = "mixed" \/ b = "mixed" THEN "mixed"
    ELSE IF a = "pending" /\ b = "pending" THEN "pending"
    ELSE "nonterminal"

\* what one part appends to results (lines 243-253)
PartResults(part) ==
    IF ~part.isDict THEN <<>>
    ELSE (IF Truthy(GetOrNone(part.text)) THEN <<part.text.s>> ELSE <<>>)
         \o (IF Truthy(GetOrNone(part.audio_url))
             THEN <<"Audio URL: " \o part.audio_url.s>> ELSE <<>>)

RECURSIVE PartsResults(_)
PartsResults(parts) ==
    IF parts = <<>> THEN <<>>
    ELSE PartResults(Head(parts)) \o PartsResults(Tail(parts))

\* results after the walk over the artifacts (lines 237-253)
RECURSIVE ArtifactResults(_)
ArtifactResults(items) ==
    IF items = <<>> THEN <<>>
    ELSE (IF Head(items).isDict /\ Head(items).partsIsList
          THEN PartsResults(Head(items).parts) ELSE <<>>)
         \o ArtifactResults(Tail(items))

\* lines 255-258
CompletedResult(items) ==
    IF ArtifactResults(items) # <<>>
    THEN Dict("result", Join("\n", ArtifactResults(items)))
    ELSE Dict("result", "No content received")

\* mutant: the status message is dropped
FailedResultMut(message) == Dict("error", "Task failed")

\* lines 261-266
FailedResult(message) ==
    Dict("error", IF Truthy(message) THEN message.s ELSE "Task failed")

max_retries == 10
retry_delay == 2

TimeoutError == Dict("error", "Task did not complete within timeout")
FormatError == Dict("error", "Task polling failed - unexpected response format")
\* mutant: the text of the exception is left out of the error
PollingErrorMut(e) == Dict("error", "Task polling error")
\* line 285
PollingError(e) == Dict("error", "Task polling error: " \o e.msg)

\* mutant: off by one in "attempt < max_retries - 1"
PollAttemptMut(att, o) ==
    LET more == att < max_retries
    IN  IF o.kind = "raise"
        THEN (IF more THEN [returns |-> FALSE, result |-> NoDict, walked |-> 0]
              ELSE [returns |-> TRUE, result |-> PollingError(o.exc), walked |-> 0])
        ELSE IF o.kind = "task" /\ o.state = "completed"
                /\ o.artifacts.kind = "list" /\ o.artifacts.items # <<>>
        THEN [returns |-> TRUE, result |-> CompletedResult(o.artifacts.items),
              walked |-> 1]
        ELSE IF o.kind = "task" /\ o.state = "failed"
        THEN [returns |-> TRUE, result |-> FailedResult(o.message), walked |-> 0]
        ELSE IF o.kind = "task" /\ o.state \in {"pending", "running"}
        THEN (IF more THEN [returns |-> FALSE, result |-> NoDict, walked |-> 0]
              ELSE [returns |-> TRUE, result |-> TimeoutError, walked |-> 0])
        ELSE (IF more THEN [returns |-> FALSE, result |-> NoDict, walked |-> 0]
              ELSE [returns |-> TRUE, result |-> FormatError, walked |-> 0])

\* One iteration of the loop of _poll_task_completion for loop index att and
\* get_task outcome o: [returns, result, sleeps, walked]
PollOutcome(returns, result, walked) ==
    [returns |-> returns, result |-> result, walked |-> walked]
PollSleep == PollOutcome(FALSE, NoDict, 0)

\* mutant: on the last attempt a run with an earlier foreign outcome ends as
\* unexpected format, whatever the last outcome
PollAttemptEarlierMut(att, o) ==
    LET more == att < max_retries - 1
    IN  IF o.kind = "task" /\ o.state = "completed"
           /\ o.artifacts.kind = "list" /\ o.artifacts.items # <<>>
        THEN PollOutcome(TRUE, CompletedResult(o.artifacts.items), 1)
        ELSE IF o.kind = "task" /\ o.state = "failed"
        THEN PollOutcome(TRUE, FailedResult(o.message), 0)
        ELSE IF more THEN PollSleep
        ELSE IF FoldClass(earlier, OutcomeClass(last)) = "mixed"
        THEN PollOutcome(TRUE, FormatError, 0)
        ELSE IF o.kind = "raise" THEN PollOutcome(TRUE, PollingError(o.exc), 0)
        ELSE IF o.kind = "task" /\ o.state \in {"pending", "running"}
        THEN PollOutcome(TRUE, TimeoutError, 0)
        ELSE PollOutcome(TRUE, FormatError, 0)

\* the loop body with n attempts in place of max_retries
PollAttemptWith(n, att, o) ==
    LET more == att < n - 1
    IN  IF o.kind = "raise"
        THEN (IF more THEN PollSleep ELSE PollOutcome(TRUE, PollingError(o.exc), 0))
        ELSE IF o.kind = "task" /\ o.state = "completed"
                /\ o.artifacts.kind = "list" /\ o.artifacts.items # <<>>
        THEN PollOutcome(TRUE, CompletedResult(o.artifacts.items), 1)
        ELSE IF o.kind = "task" /\ o.state = "failed"
        THEN PollOutcome(TRUE, FailedResult(o.message), 0)
        ELSE IF o.kind = "task" /\ o.state \in {"pending", "running"}
        THEN (IF more THEN PollSleep ELSE PollOutcome(TRUE, TimeoutError, 0))
        ELSE (IF more THEN PollSleep ELSE PollOutcome(TRUE, FormatError, 0))

PollAttempt(att, o) == PollAttemptWith(max_retries, att, o)

-----------------------------------------------------------------------------
\* host_agent/tools.py: delegate_task and delegate_task_sync

\* lines 49-55 of delegate_task
DelegateMap(name, result) ==
    IF Truthy(DictGet(result, "error"))
    THEN "Error from " \o name \o ": " \o result.val
    ELSE IF Truthy(DictGet(result, "result")) THEN result.val
    ELSE "Error: Unexpected response format from " \o name

\* outcome of a call: a returned string or a raised exception
Returned(s) == [kind |-> "str", s |-> s, exc |-> NoExc]
Raised(e) == [kind |-> "raise", s |-> "", exc |-> e]
NoOutcome == [kind |-> "none", s |-> "", exc |-> NoExc]

\* mutant: no outer except clause, the exception leaves the wrapper
WrapperCatchMut(e) == [kind |-> "raise", s |-> "", exc |-> e]

\* "except Exception as e" of delegate_task_sync (lines 100-101)
WrapperCatch(e) == Returned("Error in sync delegation wrapper: " \o e.msg)

\* concurrent.futures.TimeoutError raised by future.result(timeout=90)
FutureTimeout == Exc("TimeoutError", "")
\* asyncio.run called on a thread whose event loop is running
NestedRunError ==
    Exc("RuntimeError", "asyncio.run() cannot be called from a running event loop")

\* mutant: asyncio.run on the calling thread whatever its loop
BridgeBranchMut(has_loop) == "direct"

\* lines 84-99: asyncio.get_running_loop() succeeds (has_loop) and the
\* coroutine is submitted to a worker thread, or it raises RuntimeError and
\* asyncio.run is called on the calling thread
BridgeBranch(has_loop) == IF has_loop THEN "worker" ELSE "direct"

\* delegate_task_sync once delegate_task has ended with outcome out
\* (lines 80-101); timedOut: future.result gave up before the worker ended
BridgeResult(branch, timedOut, out) ==
    IF branch = "direct"
    THEN (IF out.kind = "raise" THEN WrapperCatch(out.exc) ELSE out)
    ELSE IF timedOut THEN WrapperCatch(FutureTimeout)
    ELSE IF out.kind = "raise"
    THEN (IF out.exc.type = "RuntimeError" THEN WrapperCatch(NestedRunError)
          ELSE WrapperCatch(out.exc))
    ELSE out

-----------------------------------------------------------------------------
\* RemoteConnections.invoke_agent

ConnectResult(url) ==
    Dict("error", "Could not connect to agent at " \o url
                    \o ". Ensure the server is running.")
CallErrorResult(url, e) ==
    Dict("error", "Error calling agent at " \o url \o ": " \o e.msg)
\* mutant: no clause for httpx.ConnectError
InvokeCatchMut(url, e) == CallErrorResult(url, e)

\* lines 109-114: the except clauses of invoke_agent
InvokeCatch(url, e) ==
    IF e.type = "ConnectError" THEN ConnectResult(url) ELSE CallErrorResult(url, e)

SendFailedResult(url) == Dict("error", "Failed to send message to agent at " \o url)
NoResultResult(url) == Dict("error", "No result from agent at " \o url)
\* mutant: invoke_agent falls off its end with an empty dict
NoTaskIdResultMut == NoDict

\* lines 105-107
NoTaskIdResult ==
    Dict("error",
         "No immediate response content and could not extract taskId for polling")

\* outcome of the send_message request: it raised exc, it answered with an
\* error response, or it answered with a success response holding result
SendOutcome(kind, exc, result) == [kind |-> kind, exc |-> exc, result |-> result]
SendOutcomes ==
    {SendOutcome("raise", e, NoReply) : e \in CallErrors \cup {ConnectError}}
    \cup {SendOutcome("error_response", NoExc, NoReply)}
    \cup {SendOutcome("success", NoExc, r) :
            r \in Replies \cup {NoneResult, EmptyDictResult}}

\* mutant: the task handle is looked for before the inline content
InvokeDispatchMut(url, r) ==
    IF r.kind \in {"none", "emptydict"}
    THEN [poll |-> FALSE, task_id |-> "", result |-> NoResultResult(url)]
    ELSE IF Truthy(ExtractTaskId(r))
    THEN [poll |-> TRUE, task_id |-> ExtractTaskId(r).s, result |-> NoDict]
    ELSE IF Truthy(ExtractImmediateResponse(r))
    THEN [poll |-> FALSE, task_id |-> "",
          result |-> Dict("result", ExtractImmediateResponse(r).s)]
    ELSE [poll |-> FALSE, task_id |-> "", result |-> NoTaskIdResult]

\* lines 92-107 of invoke_agent for result r: [poll, task_id, result]
Dispatch(poll, tid, result) == [poll |-> poll, task_id |-> tid, result |-> result]
InvokeDispatch(url, r) ==
    IF ResultFalsy(r) THEN Dispatch(FALSE, "", NoResultResult(url))
    ELSE IF Truthy(ExtractImmediateResponse(r))
    THEN Dispatch(FALSE, "", Dict("result", ExtractImmediateResponse(r).s))
    ELSE IF Truthy(ExtractTaskId(r)) THEN Dispatch(TRUE, ExtractTaskId(r).s, NoDict)
    ELSE Dispatch(FALSE, "", NoTaskIdResult)

-----------------------------------------------------------------------------
\* The state machine of one call of delegate_task_sync

PcValues ==
    {"idle", "dt_start", "card", "send", "poll_query", "poll_sleep", "closing",
     "dt_done", "done"}

\* delegate_task_sync has not been called
HostIdle ==
    /\ pc = "idle"
    /\ agent_name = ""
    /\ bridge = "none"
    /\ outer = "waiting"
    /\ clients_created = 0
    /\ clients_closed = 0
    /\ card_fetches = 0
    /\ sends = 0
    /\ queries = 0
    /\ queried = {}
    /\ waits = 0
    /\ slept = 0
    /\ walks = 0
    /\ reply = NoReply
    /\ task_id = ""
    /\ attempt = 0
    /\ last = NoResponse
    /\ earlier = "pending"
    /\ invoke_result = NoDict
    /\ dt_value = ""
    /\ dt_out = NoOutcome
    /\ ret = NoOutcome
    /\ caller_loop = FALSE
    /\ raised = NoExc
    /\ record = NoResponse
    /\ polled = <<>>

Init == HostIdle /\ OthersIdle

\* delegate_task_sync(name, _) is called; has_loop: the calling thread has a
\* running event loop, so delegate_task is submitted to a worker thread
Call(name, has_loop) ==
    /\ pc = "idle"
    /\ pc' = "dt_start"
    /\ agent_name' = name
    /\ bridge' = BridgeBranch(has_loop)
    /\ UNCHANGED <<outer, clients_created, clients_closed, card_fetches, sends,
                   queries, queried, waits, slept, walks, reply, task_id, attempt,
                   last, earlier, invoke_result, dt_value, dt_out, ret>>
    /\ caller_loop' = has_loop
    /\ UNCHANGED <<raised, record, polled>>
    /\ UNCHANGED othervars

\* mutant: a send that ended with an error is issued again
InvokeReturnsMut(result) ==
    /\ invoke_result' = result
    /\ dt_value' = DelegateMap(agent_name, result)
    /\ pc' = IF pc = "send" /\ result.key = "error" THEN "send" ELSE "closing"

\* invoke_agent ended with result: delegate_task maps it and awaits close()
InvokeReturns(result) ==
    /\ invoke_result' = result
    /\ dt_value' = DelegateMap(agent_name, result)
    /\ pc' = "closing"

\* delegate_task lines 36-42: the lookup, then RemoteConnections.create, which
\* constructs the client (exc = NoExc) or raises exc
DelegateStart(exc) ==
    /\ pc = "dt_start"
    /\ IF ~KnownAgent(agent_name)
       THEN /\ exc = NoExc
            /\ dt_out' = Returned(UnknownAgentError(agent_name))
            /\ pc' = "dt_done"
            /\ UNCHANGED clients_created
       ELSE IF exc = NoExc
       THEN /\ clients_created' = clients_created + 1
            /\ pc' = "card"
            /\ UNCHANGED dt_out
       ELSE /\ dt_out' = Raised(exc)
            /\ pc' = "dt_done"
            /\ UNCHANGED clients_created
    /\ UNCHANGED <<agent_name, bridge, outer, clients_closed, card_fetches, sends,
                   queries, queried, waits, slept, walks, reply, task_id, attempt,
                   last, earlier, invoke_result, dt_value, ret>>
    /\ UNCHANGED <<caller_loop, raised, record, polled>>
    /\ UNCHANGED othervars

\* invoke_agent lines 70-72: the agent card is fetched (exc = NoExc), or the
\* fetch raises exc
CardFetch(exc) ==
    /\ pc = "card"
    /\ card_fetches' = card_fetches + 1
    /\ IF exc = NoExc
       THEN /\ pc' = "send"
            /\ UNCHANGED <<invoke_result, dt_value>>
       ELSE /\ InvokeReturns(InvokeCatch(AGENT_URL_MAP[agent_name], exc))
    /\ UNCHANGED <<agent_name, bridge, outer, clients_created, clients_closed, sends,
                   queries, queried, waits, slept, walks, reply, task_id, attempt,
                   last, earlier, dt_out, ret>>
    /\ raised' = exc
    /\ UNCHANGED <<caller_loop, record, polled>>
    /\ UNCHANGED othervars

\* invoke_agent lines 75-107: the message is sent and the reply classified
SendMessage(o) ==
    /\ pc = "send"
    /\ sends' = sends + 1
    /\ LET url == AGENT_URL_MAP[agent_name]
           d == InvokeDispatch(url, o.result)
       IN  IF o.kind = "raise"
           THEN /\ InvokeReturns(InvokeCatch(url, o.exc))
                /\ UNCHANGED <<reply, task_id, attempt, earlier>>
           ELSE IF o.kind = "error_response"
           THEN /\ InvokeReturns(SendFailedResult(url))
                /\ UNCHANGED <<reply, task_id, attempt, earlier>>
           ELSE IF d.poll
           THEN /\ reply' = o.result
                /\ task_id' = d.task_id
                /\ attempt' = 0
                /\ earlier' = "pending"
                /\ pc' = "poll_query"
                /\ UNCHANGED <<invoke_result, dt_value>>
           ELSE /\ reply' = o.result
                /\ InvokeReturns(d.result)
                /\ UNCHANGED <<task_id, attempt, earlier>>
    /\ UNCHANGED <<agent_name, bridge, outer, clients_created, clients_closed,
                   card_fetches, queries, queried, waits, slept, walks, last,
                   dt_out, ret>>
    /\ raised' = (IF o.kind = "raise" THEN o.exc ELSE NoExc)
    /\ UNCHANGED <<caller_loop, record, polled>>
    /\ UNCHANGED othervars

\* _poll_task_completion lines 219-285: one get_task request with outcome o.
\* The reply that was classified is not read again.
PollQuery(o) ==
    /\ pc = "poll_query"
    /\ queries' = queries + 1
    /\ queried' = queried \cup {task_id}
    /\ last' = o
    /\ earlier' = FoldClass(earlier, OutcomeClass(last))
    /\ reply' = NoReply
    /\ LET out == PollAttempt(attempt, o)
       IN  /\ walks' = walks + out.walked
           /\ IF out.returns
              THEN /\ InvokeReturns(out.result)
                   /\ UNCHANGED <<waits, slept>>
              ELSE /\ waits' = waits + 1
                   /\ slept' = slept + retry_delay
                   /\ pc' = "poll_sleep"
                   /\ UNCHANGED <<invoke_result, dt_value>>
    /\ UNCHANGED <<agent_name, bridge, outer, clients_created, clients_closed,
                   card_fetches, sends, task_id, attempt, dt_out, ret>>
    /\ UNCHANGED <<caller_loop, raised, record, polled>>
    /\ UNCHANGED othervars

\* mutant: the loop starts over after each sleep
PollWakeMut ==
    /\ pc = "poll_sleep"
    /\ attempt' = 0
    /\ pc' = "poll_query"
    /\ UNCHANGED <<agent_name, bridge, outer, clients_created, clients_closed,
                   card_fetches, sends, queries, queried, waits, slept, walks,
                   reply, task_id, last, earlier, dt_out, ret, invoke_result,
                   dt_value, caller_loop, raised, record, polled, othervars>>

\* asyncio.sleep(retry_delay) ends: the loop takes its next index, or, past
\* the last index, line 287
PollWake ==
    /\ pc = "poll_sleep"
    /\ attempt' = attempt + 1
    /\ IF attempt + 1 < max_retries
       THEN /\ pc' = "poll_query"
            /\ UNCHANGED <<invoke_result, dt_value>>
       ELSE InvokeReturns(TimeoutError)
    /\ UNCHANGED <<agent_name, bridge, outer, clients_created, clients_closed,
                   card_fetches, sends, queries, queried, waits, slept, walks,
                   reply, task_id, last, earlier, dt_out, ret>>
    /\ UNCHANGED <<caller_loop, raised, record, polled>>
    /\ UNCHANGED othervars

\* mutant: close() sits at the end of the try block, not in finally: it is
\* skipped when invoke_agent met an exception
CloseMut(exc) ==
    /\ pc = "closing"
    /\ clients_closed' = IF raised = NoExc THEN clients_closed + 1 ELSE clients_closed
    /\ dt_out' = IF exc = NoExc THEN Returned(dt_value) ELSE Raised(exc)
    /\ pc' = "dt_done"
    /\ reply' = NoReply
    /\ task_id' = ""
    /\ attempt' = 0
    /\ last' = NoResponse
    /\ earlier' = "pending"
    /\ raised' = NoExc
    /\ UNCHANGED <<agent_name, bridge, outer, clients_created, card_fetches, sends,
                   queries, queried, waits, slept, walks, invoke_result, dt_value,
                   ret, caller_loop, record, polled, othervars>>

\* delegate_task lines 61-62: remote_connections.close() ends (exc = NoExc)
\* or raises exc, and delegate_task ends. The locals of invoke_agent and of
\* _poll_task_completion are gone by then.
Close(exc) ==
    /\ pc = "closing"
    /\ clients_closed' = clients_closed + 1
    /\ dt_out' = IF exc = NoExc THEN Returned(dt_value) ELSE Raised(exc)
    /\ pc' = "dt_done"
    /\ reply' = NoReply
    /\ task_id' = ""
    /\ attempt' = 0
    /\ last' = NoResponse
    /\ earlier' = "pending"
    /\ UNCHANGED <<agent_name, bridge, outer, clients_created, card_fetches, sends,
                   queries, queried, waits, slept, walks, invoke_result, dt_value,
                   ret>>
    /\ raised' = NoExc
    /\ UNCHANGED <<caller_loop, record, polled>>
    /\ UNCHANGED othervars

\* future.result(timeout=90) gives up while the worker is suspended in an await
OuterTimeout ==
    /\ bridge = "worker"
    /\ outer = "waiting"
    /\ pc \in {"card", "send", "poll_query", "poll_sleep", "closing"}
    /\ outer' = "timed_out"
    /\ UNCHANGED <<pc, agent_name, bridge, clients_created, clients_closed,
                   card_fetches, sends, queries, queried, waits, slept, walks,
                   reply, task_id, attempt, last, earlier, invoke_result,
                   dt_value, dt_out, ret>>
    /\ UNCHANGED <<caller_loop, raised, record, polled>>
    /\ UNCHANGED othervars

\* delegate_task_sync returns: delegate_task has ended (on the timed-out path
\* the executor's shutdown has waited for the worker)
BridgeReturn ==
    /\ pc = "dt_done"
    /\ ret' = BridgeResult(bridge, outer = "timed_out", dt_out)
    /\ pc' = "done"
    /\ UNCHANGED <<agent_name, bridge, outer, clients_created, clients_closed,
                   card_fetches, sends, queries, queried, waits, slept, walks,
                   reply, task_id, attempt, last, earlier, invoke_result,
                   dt_value, dt_out>>
    /\ UNCHANGED <<caller_loop, raised, record, polled>>
    /\ UNCHANGED othervars

Next ==
    \/ \E name \in CallerAgentNames, has_loop \in BOOLEAN : Call(name, has_loop)
    \/ \E exc \in ClientErrors \cup {NoExc} : DelegateStart(exc)
    \/ \E exc \in CallErrors \cup {ConnectError, NoExc} : CardFetch(exc)
    \/ \E o \in SendOutcomes : SendMessage(o)
    \/ \E o \in TaskResponses : PollQuery(o)
    \/ PollWake
    \/ \E exc \in ClientErrors \cup {NoExc} : Close(exc)
    \/ OuterTimeout
    \/ BridgeReturn

Spec == Init /\ [][Next]_vars

TypeOK ==
    /\ pc \in PcValues
    /\ attempt \in 0..max_retries
    /\ queries \in 0..max_retries

-----------------------------------------------------------------------------
\* The call of delegate_task_sync with the durations of its awaits

\* future.result(timeout=90)
outer_timeout == 90
\* RemoteConnections.create(timeout=60.0): bound of one HTTP request
http_timeout == 60

\* The latest time, in seconds after the submit, at which the await the worker
\* is suspended in ends: every request issued so far, and the one in flight,
\* took at most http_timeout, and every sleep took retry_delay
MaxElapsed ==
    http_timeout * (card_fetches + sends + queries
                        + (IF pc \in {"card", "send", "poll_query"} THEN 1 ELSE 0))
        + slept

\* future.result gives up: outer_timeout seconds have passed and the worker
\* is still suspended in an await
TimedOuterTimeout ==
    /\ MaxElapsed > outer_timeout
    /\ OuterTimeout

TimedNext ==
    \/ \E name \in CallerAgentNames, has_loop \in BOOLEAN : Call(name, has_loop)
    \/ \E exc \in ClientErrors \cup {NoExc} : DelegateStart(exc)
    \/ \E exc \in CallErrors \cup {ConnectError, NoExc} : CardFetch(exc)
    \/ \E o \in SendOutcomes : SendMessage(o)
    \/ \E o \in TaskResponses : PollQuery(o)
    \/ PollWake
    \/ \E exc \in ClientErrors \cup {NoExc} : Close(exc)
    \/ TimedOuterTimeout
    \/ BridgeReturn

TimedSpec == Init /\ [][TimedNext]_vars

-----------------------------------------------------------------------------
\* _poll_task_completion called on a handle whose record is completed and
\* does not change

FixedRecords ==
    {TaskResponse("task", NoExc, "completed", None, a) :
        a \in {NoArtifacts} \cup
              {ArtifactsVal("list", l) :
                  l \in ArtifactListsOf(MaxFixedParts, MaxFixedArtifacts)}}

\* invoke_agent has received a task handle and calls _poll_task_completion
\* (line 103)
PollInit ==
    /\ pc = "poll_query"
    /\ agent_name = "notion_agent"
    /\ bridge = "direct"
    /\ outer = "waiting"
    /\ clients_created = 1
    /\ clients_closed = 0
    /\ card_fetches = 1
    /\ sends = 1
    /\ queries = 0
    /\ queried = {}
    /\ waits = 0
    /\ slept = 0
    /\ walks = 0
    /\ reply = NoReply
    /\ task_id = "t1"
    /\ attempt = 0
    /\ last = NoResponse
    /\ earlier = "pending"
    /\ invoke_result = NoDict
    /\ dt_value = ""
    /\ dt_out = NoOutcome
    /\ ret = NoOutcome
    /\ caller_loop = FALSE
    /\ raised = NoExc
    /\ record \in FixedRecords
    /\ polled = <<>>
    /\ OthersIdle

\* the get_task request is answered with the fixed record
PollRecord == PollQuery(record)

\* _poll_task_completion has returned: its result and the number of its
\* queries are noted, and it is called again on the same handle
PollCallEnds ==
    /\ pc = "closing"
    /\ Len(polled) < MaxPolls
    /\ polled' = Append(polled, [result |-> invoke_result, queries |-> queries])
    /\ pc' = IF Len(polled) + 1 < MaxPolls THEN "poll_query" ELSE "done"
    /\ queries' = 0
    /\ queried' = {}
    /\ waits' = 0
    /\ slept' = 0
    /\ walks' = 0
    /\ attempt' = 0
    /\ last' = NoResponse
    /\ earlier' = "pending"
    /\ invoke_result' = NoDict
    /\ dt_value' = ""
    /\ UNCHANGED <<agent_name, bridge, outer, clients_created, clients_closed,
                   card_fetches, sends, reply, task_id, dt_out, ret, caller_loop,
                   raised, record>>
    /\ UNCHANGED othervars

PollNext ==
    \/ PollRecord
    \/ PollWake
    \/ PollCallEnds

PollSpec == PollInit /\ [][PollNext]_vars

-----------------------------------------------------------------------------
\* Two calls of delegate_task running concurrently on one event loop

Calls == {1, 2}

\* what invoke_agent obtains when its requests go through
ConcRemotes == {Dict("result", "A"), Dict("result", "B"), Dict("error", "Task failed")}

\* httpx: a request on a client whose aclose() has run
ClosedClientError ==
    Exc("RuntimeError", "Cannot send a request, as the client has been closed.")

\* mutant: one client object shared by all calls
NewClientMut(clients) == 1

\* httpx.AsyncClient(timeout=timeout) constructs a new object (line 49 of
\* remote_connections.py)
NewClient(clients) == Len(clients) + 1

ConcInit ==
    /\ HostIdle
    /\ conc_name \in [Calls -> CallerAgentNames \ {""}]
    /\ conc_remote \in [Calls -> ConcRemotes]
    /\ conc_pc = [i \in Calls |-> "start"]
    /\ conc_client = [i \in Calls |-> 0]
    /\ conc_out = [i \in Calls |-> ""]
    /\ http_clients = <<>>
    /\ PayIdle
    /\ StartIdle
    /\ UiIdle
    /\ RefIdle
    /\ ExecIdle
    /\ TestIdle

\* delegate_task lines 36-42 of call i
ConcStart(i) ==
    /\ conc_pc[i] = "start"
    /\ IF ~KnownAgent(conc_name[i])
       THEN /\ conc_out' = [conc_out EXCEPT ![i] = UnknownAgentError(conc_name[i])]
            /\ conc_pc' = [conc_pc EXCEPT ![i] = "done"]
            /\ UNCHANGED <<conc_client, http_clients>>
       ELSE LET id == NewClient(http_clients)
            IN  /\ http_clients' =
                      IF id \in DOMAIN http_clients
                      THEN [http_clients EXCEPT ![id] = "open"]
                      ELSE Append(http_clients, "open")
                /\ conc_client' = [conc_client EXCEPT ![i] = id]
                /\ conc_pc' = [conc_pc EXCEPT ![i] = "card"]
                /\ UNCHANGED conc_out
    /\ UNCHANGED <<conc_name, conc_remote, nonconcvars>>

\* invoke_agent of call i ends with result: delegate_task maps it (lines
\* 47-55) and awaits close()
ConcInvokeReturns(i, result) ==
    /\ conc_out' = [conc_out EXCEPT ![i] = DelegateMap(conc_name[i], result)]
    /\ conc_pc' = [conc_pc EXCEPT ![i] = "closing"]

\* invoke_agent lines 70-72 of call i, on the client of call i
ConcCard(i) ==
    /\ conc_pc[i] = "card"
    /\ IF http_clients[conc_client[i]] = "open"
       THEN /\ conc_pc' = [conc_pc EXCEPT ![i] = "send"]
            /\ UNCHANGED conc_out
       ELSE ConcInvokeReturns(i, InvokeCatch(AGENT_URL_MAP[conc_name[i]],
                                             ClosedClientError))
    /\ UNCHANGED <<conc_name, conc_remote, conc_client, http_clients, nonconcvars>>

\* invoke_agent lines 75-107 of call i, on the client of call i
ConcSend(i) ==
    /\ conc_pc[i] = "send"
    /\ IF http_clients[conc_client[i]] = "open"
       THEN ConcInvokeReturns(i, conc_remote[i])
       ELSE ConcInvokeReturns(i, InvokeCatch(AGENT_URL_MAP[conc_name[i]],
                                             ClosedClientError))
    /\ UNCHANGED <<conc_name, conc_remote, conc_client, http_clients, nonconcvars>>

\* delegate_task lines 61-62 of call i: its client is closed, and it returns
ConcClose(i) ==
    /\ conc_pc[i] = "closing"
    /\ http_clients' = [http_clients EXCEPT ![conc_client[i]] = "closed"]
    /\ conc_pc' = [conc_pc EXCEPT ![i] = "done"]
    /\ UNCHANGED <<conc_name, conc_remote, conc_client, conc_out, nonconcvars>>

ConcNext ==
    \/ \E i \in Calls : ConcStart(i)
    \/ \E i \in Calls : ConcCard(i)
    \/ \E i \in Calls : ConcSend(i)
    \/ \E i \in Calls : ConcClose(i)

ConcSpec == ConcInit /\ [][ConcNext]_vars

-----------------------------------------------------------------------------
\* RemoteConnections._create_send_message_payload (and its copy
\* create_send_message_payload of host_agent/test_client.py)

PayTexts == {"", "hello", "read the page\nthen speak it"}
PayIds == {None, Str(""), Str("t1"), Str("c1")}
\* values of uuid4().hex
MessageIds == {"3f2a", "9b1c"}

\* mutant: the optional keys are always written
CreateSendMessagePayloadMut(text, tid, cid, mid) ==
    [message |->
        [role |-> Str("user"), parts |-> <<[text |-> text]>>, messageId |-> Str(mid),
         taskId |-> tid, contextId |-> cid]]

\* lines 129-140: the dict is a function from its keys; "k :> v @@ d" is
\* d[k] = v on a key that d does not hold
CreateSendMessagePayload(text, tid, cid, mid) ==
    LET base == [role |-> Str("user"), parts |-> <<[text |-> text]>>,
                 messageId |-> Str(mid)]
        withTask == IF Truthy(tid) THEN ("taskId" :> tid) @@ base ELSE base
        withContext == IF Truthy(cid)
                       THEN ("contextId" :> cid) @@ withTask ELSE withTask
    IN  [message |-> withContext]

PayInit ==
    /\ HostIdle
    /\ ConcIdle
    /\ StartIdle
    /\ UiIdle
    /\ RefIdle
    /\ ExecIdle
    /\ TestIdle
    /\ pay_pc = "call"
    /\ pay_text \in PayTexts
    /\ pay_task_id \in PayIds
    /\ pay_context_id \in PayIds
    /\ payload = <<>>

\* the call returns
PayBuild(mid) ==
    /\ pay_pc = "call"
    /\ payload' = CreateSendMessagePayload(pay_text, pay_task_id, pay_context_id, mid)
    /\ pay_pc' = "built"
    /\ UNCHANGED <<pay_text, pay_task_id, pay_context_id, nonpayvars>>

PayNext == \E mid \in MessageIds : PayBuild(mid)

PaySpec == PayInit /\ [][PayNext]_vars

-----------------------------------------------------------------------------
\* scripts/start_agents.py: main

\* keys of AGENT_CONFIGS
AgentKeys == {"notion", "elevenlabs", "host"}

\* lines 130-132
AgentsToStart(withHost) ==
    IF withHost THEN <<"notion", "elevenlabs", "host">> ELSE <<"notion", "elevenlabs">>

StartPcValues ==
    {"idle", "check_env", "starting", "waiting", "running", "shut_check",
     "shut_wait", "exited"}

StartInit ==
    /\ HostIdle
    /\ ConcIdle
    /\ PayIdle
    /\ UiIdle
    /\ RefIdle
    /\ ExecIdle
    /\ TestIdle
    /\ st_pc = "check_env"
    /\ with_host \in BOOLEAN
    /\ st_index = 1
    /\ processes = <<>>
    /\ child = [a \in AgentKeys |-> "none"]
    /\ signals = [a \in AgentKeys |-> {}]
    /\ st_shut = 1
    /\ st_exc = ""

\* lines 138-142: check_env_vars passes, or main ends with sys.exit(1)
CheckEnv(ok) ==
    /\ st_pc = "check_env"
    /\ st_pc' = IF ok THEN "starting" ELSE "exited"
    /\ st_exc' = IF ok THEN "" ELSE "SystemExit"
    /\ UNCHANGED <<with_host, st_index, processes, child, signals, st_shut,
                   nonstartvars>>

\* the finally loop (line 200) after item j of processes.items()
AfterShutItem(j) == IF j >= Len(processes) THEN "exited" ELSE "shut_check"

\* lines 148-172, one turn of the for loop: Popen starts the child and it is
\* entered in processes (ok), or open or Popen raises OSError
StartAgent(ok) ==
    /\ st_pc = "starting"
    /\ LET a == AgentsToStart(with_host)[st_index]
       IN  IF ok
           THEN /\ child' = [child EXCEPT ![a] = "running"]
                /\ processes' = Append(processes, a)
                /\ st_index' = st_index + 1
                /\ st_pc' = IF st_index = Len(AgentsToStart(with_host))
                            THEN "waiting" ELSE "starting"
                /\ UNCHANGED st_exc
           ELSE /\ st_exc' = "OSError"
                /\ st_pc' = IF processes = <<>> THEN "exited" ELSE "shut_check"
                /\ UNCHANGED <<child, processes, st_index>>
    /\ UNCHANGED <<with_host, signals, st_shut, nonstartvars>>

\* lines 175-186: every agent answered its card request (ready), or
\* wait_for_all_services raises RuntimeError, which line 194 catches
WaitForAllServices(ready) ==
    /\ st_pc = "waiting"
    /\ st_pc' = IF ready THEN "running" ELSE "shut_check"
    /\ st_exc' = IF ready THEN "" ELSE "RuntimeError"
    /\ UNCHANGED <<with_host, st_index, processes, child, signals, st_shut,
                   nonstartvars>>

\* Ctrl+C: KeyboardInterrupt is raised in the try block (lines 146-192)
Interrupt ==
    /\ st_pc \in {"starting", "waiting", "running"}
    /\ st_exc' = "KeyboardInterrupt"
    /\ st_pc' = IF processes = <<>> THEN "exited" ELSE "shut_check"
    /\ UNCHANGED <<with_host, st_index, processes, child, signals, st_shut,
                   nonstartvars>>

\* Ctrl+C while the finally block runs: KeyboardInterrupt leaves the block
InterruptShutdown ==
    /\ st_pc \in {"shut_check", "shut_wait"}
    /\ st_exc' = "KeyboardInterrupt"
    /\ st_pc' = "exited"
    /\ UNCHANGED <<with_host, st_index, processes, child, signals, st_shut,
                   nonstartvars>>

\* a child process ends by itself
ChildExits(a) ==
    /\ st_pc # "exited"
    /\ child[a] = "running"
    /\ child' = [child EXCEPT ![a] = "exited"]
    /\ UNCHANGED <<st_pc, with_host, st_index, processes, signals, st_shut, st_exc,
                   nonstartvars>>

\* lines 200-203: process.poll() of item st_shut; a running child is sent
\* terminate
ShutCheck ==
    /\ st_pc = "shut_check"
    /\ LET a == processes[st_shut]
       IN  IF child[a] = "running"
           THEN /\ signals' = [signals EXCEPT ![a] = @ \cup {"terminate"}]
                /\ st_pc' = "shut_wait"
                /\ UNCHANGED st_shut
           ELSE /\ st_pc' = AfterShutItem(st_shut)
                /\ st_shut' = st_shut + 1
                /\ UNCHANGED signals
    /\ UNCHANGED <<with_host, st_index, processes, child, st_exc, nonstartvars>>

\* lines 204-208: process.wait(timeout=5) returns (exited), or raises
\* TimeoutExpired and the child is sent kill
ShutWait(exited) ==
    /\ st_pc = "shut_wait"
    /\ LET a == processes[st_shut]
       IN  IF exited \/ child[a] # "running"
           THEN /\ child' = [child EXCEPT ![a] = "exited"]
                /\ UNCHANGED signals
           ELSE /\ signals' = [signals EXCEPT ![a] = @ \cup {"kill"}]
                /\ child' = [child EXCEPT ![a] = "killed"]
    /\ st_pc' = AfterShutItem(st_shut)
    /\ st_shut' = st_shut + 1
    /\ UNCHANGED <<with_host, st_index, processes, st_exc, nonstartvars>>

StartNext ==
    \/ \E ok \in BOOLEAN : CheckEnv(ok)
    \/ \E ok \in BOOLEAN : StartAgent(ok)
    \/ \E ready \in BOOLEAN : WaitForAllServices(ready)
    \/ Interrupt
    \/ InterruptShutdown
    \/ \E a \in AgentKeys : ChildExits(a)
    \/ ShutCheck
    \/ \E exited \in BOOLEAN : ShutWait(exited)

StartSpec == StartInit /\ [][StartNext]_vars

-----------------------------------------------------------------------------
\* ui/a2a_app.py: run_agent_logic_a2a, send_message_to_agent and
\* poll_for_task_completion

MAX_RETRIES == 15
RETRY_DELAY == 3

\* the pictographs of the messages: U+274C and U+23F0
CrossMark == "<U+274C>"
AlarmClock == "<U+23F0>"

MaxUiParts == 2

\* part.root.text of one part of the reply: Absent when the part has no text
UiPartTexts == {Absent, Str(""), Str("Hello"), Str("Done")}

\* a reply to send_message:
\*   kind "raise": the request raised exc
\*   kind "noresult": the response has no attribute result
\*   kind "message": result is an object; parts holds part.root.text of each
\*                   part, taskId the attribute taskId
\*   kind "dict": result is a dict; taskId is result.get('taskId')
\* contextId is the attribute contextId of result, Absent when it has none
UiReply(kind, exc, parts, taskId, contextId) ==
    [kind |-> kind, exc |-> exc, parts |-> parts, taskId |-> taskId,
     contextId |-> contextId]

UiTaskIds == {Absent, None, NonStr, Str(""), Str("t1")}

UiReplies ==
    {UiReply("raise", e, <<>>, Absent, Absent) : e \in QueryErrors}
    \cup {UiReply("noresult", NoExc, <<>>, Absent, Absent)}
    \cup {UiReply("message", NoExc, ps, t, None) :
            ps \in SeqsUpTo(UiPartTexts, MaxUiParts), t \in UiTaskIds}
    \cup {UiReply("dict", NoExc, <<>>, t, Absent) : t \in UiTaskIds \ {Absent}}

\* lines 114-123: immediate_text after the loop over the parts, starting
\* from the value cur
RECURSIVE ImmediateText(_, _)
ImmediateText(parts, cur) ==
    IF parts = <<>> THEN cur
    ELSE IF ~HasAttr(Head(parts)) THEN ImmediateText(Tail(parts), cur)
    ELSE IF Truthy(Head(parts)) THEN Head(parts)
    ELSE ImmediateText(Tail(parts), Head(parts))

\* lines 126-140: extracted_task_id
ExtractedTaskId(r) ==
    IF r.kind = "message"
    THEN (IF HasAttr(r.taskId) /\ IsStr(r.taskId) THEN r.taskId ELSE None)
    ELSE IF r.kind = "dict" /\ IsStr(r.taskId) THEN r.taskId
    ELSE None

\* the dict of results; tool_calls and tool_responses are always empty lists
UiResults(final_response, audio_url, success) ==
    [final_response |-> final_response, audio_url |-> audio_url,
     success |-> success]

NoUiResults == UiResults("", None, FALSE)
ConnectFailedResults ==
    UiResults(CrossMark \o " Failed to connect to Host Agent service", None, FALSE)
SendFailedResults ==
    UiResults(CrossMark \o " Failed to send message to agent", None, FALSE)
UiTimeoutResults ==
    UiResults(AlarmClock \o " Timeout: Task did not complete after 15 attempts",
              None, FALSE)
UiPollingError(msg) ==
    UiResults("Error polling for task completion: " \o msg, None, FALSE)
NoStatusError == "'NoneType' object has no attribute 'state'"

\* lines 230-242: the texts the walk collects
UiPartText(part) ==
    IF part.isDict /\ Truthy(GetOrNone(part.text)) THEN <<part.text.s>> ELSE <<>>

RECURSIVE UiPartsTexts(_)
UiPartsTexts(parts) ==
    IF parts = <<>> THEN <<>>
    ELSE UiPartText(Head(parts)) \o UiPartsTexts(Tail(parts))

RECURSIVE UiArtifactTexts(_)
UiArtifactTexts(items) ==
    IF items = <<>> THEN <<>>
    ELSE (IF Head(items).isDict /\ Head(items).partsIsList
          THEN UiPartsTexts(Head(items).parts) ELSE <<>>)
         \o UiArtifactTexts(Tail(items))

\* lines 241-242: results['audio_url'] after the walk, starting from cur
RECURSIVE UiPartsAudio(_, _)
UiPartsAudio(parts, cur) ==
    IF parts = <<>> THEN cur
    ELSE UiPartsAudio(Tail(parts),
            IF Head(parts).isDict /\ Truthy(GetOrNone(Head(parts).audio_url))
               /\ ~Truthy(cur)
            THEN Head(parts).audio_url ELSE cur)

RECURSIVE UiArtifactAudio(_, _)
UiArtifactAudio(items, cur) ==
    IF items = <<>> THEN cur
    ELSE UiArtifactAudio(Tail(items),
            IF Head(items).isDict /\ Head(items).partsIsList
            THEN UiPartsAudio(Head(items).parts, cur) ELSE cur)

\* lines 226-245
UiCompletedResults(items) ==
    UiResults(IF UiArtifactTexts(items) # <<>>
              THEN Join("\n", UiArtifactTexts(items))
              ELSE "Task completed successfully.",
              UiArtifactAudio(items, None), TRUE)

\* lines 247-250
UiFailedResults(message) ==
    UiResults(CrossMark \o " Task Failed: "
                \o (IF Truthy(message) THEN message.s ELSE "Task failed"),
              None, FALSE)

\* One iteration of the loop of poll_for_task_completion (lines 205-258) for
\* n attempts, loop index att and get_task outcome o. step is "return" when
\* the function returns results, "sleep" when it sleeps before the next
\* index, "next" when it goes to the next index at once.
UiStep(step, results) == [step |-> step, results |-> results]

\* the loop ends without a return: lines 261-263
UiLoopEnd(n, att, step) ==
    IF att < n - 1 THEN UiStep(step, NoUiResults)
    ELSE UiStep("return", UiTimeoutResults)

UiPollAttempt(n, att, o) ==
    IF o.kind = "raise" THEN UiStep("return", UiPollingError(o.exc.msg))
    ELSE IF o.kind \in {"nonsuccess", "noresult"} THEN UiLoopEnd(n, att, "next")
    ELSE IF o.state = "" THEN UiStep("return", UiPollingError(NoStatusError))
    ELSE IF o.state = "completed" /\ o.artifacts.kind = "list"
            /\ o.artifacts.items # <<>>
    THEN UiStep("return", UiCompletedResults(o.artifacts.items))
    ELSE IF o.state = "completed" THEN UiStep("return", NoUiResults)
    ELSE IF o.state = "failed" THEN UiStep("return", UiFailedResults(o.message))
    ELSE UiLoopEnd(n, att, "sleep")

\* the get_task outcomes the UI run draws from
UiArtifacts ==
    { NoArtifacts,
      ArtifactsVal("list", <<>>),
      ArtifactsVal("list", <<Artifact(FALSE, FALSE, <<>>)>>),
      ArtifactsVal("list", <<Artifact(TRUE, TRUE, <<PartData(TRUE, Str("A"), Absent),
                                                    PartData(TRUE, Str("B"), Str("u2"))>>)>>),
      ArtifactsVal("list", <<Artifact(TRUE, TRUE, <<PartData(TRUE, Absent, Str("u1"))>>),
                             Artifact(TRUE, TRUE, <<PartData(TRUE, Str("B"), Str("u2"))>>)>>) }

UiTaskResponses ==
    {TaskResponse("raise", e, "", None, NoArtifacts) : e \in QueryErrors}
    \cup {TaskResponse("nonsuccess", NoExc, "", None, NoArtifacts),
          TaskResponse("noresult", NoExc, "", None, NoArtifacts)}
    \cup {TaskResponse("task", NoExc, st, None, NoArtifacts) :
            st \in {"", "canceled", "working"} \cup NonTerminalStates}
    \cup {TaskResponse("task", NoExc, "failed", m, NoArtifacts) : m \in StatusMessages}
    \cup {TaskResponse("task", NoExc, "completed", None, a) : a \in UiArtifacts}

\* what a get_task outcome shows: its kind, "nostatus" for a task whose
\* status is None
UiKind(o) == IF o.kind = "task" /\ o.state = "" THEN "nostatus" ELSE o.kind

UiPcValues == {"idle", "connect", "send", "poll_start", "poll_query", "poll_sleep", "done"}

UiInit ==
    /\ HostIdle
    /\ ConcIdle
    /\ PayIdle
    /\ StartIdle
    /\ RefIdle
    /\ ExecIdle
    /\ TestIdle
    /\ ui_pc = "connect"
    /\ immediate_responses = <<>>
    /\ ui_reply = UiReply("none", NoExc, <<>>, Absent, Absent)
    /\ ui_task_id = None
    /\ ui_attempt = 0
    /\ ui_queries = 0
    /\ ui_waits = 0
    /\ ui_status = ""
    /\ ui_seen = {}
    /\ ui_results = NoUiResults
    /\ ui_last = NoResponse
    /\ current_context_id = None
    /\ ui_payload_ctx = Absent
    /\ ui_polls = 0
    /\ ui_ctx_received = Absent

\* lines 320-328: create_a2a_client returns a client, or None
UiConnect(ok) ==
    /\ ui_pc = "connect"
    /\ IF ok
       THEN /\ ui_pc' = "send"
            /\ UNCHANGED ui_results
       ELSE /\ ui_pc' = "done"
            /\ ui_results' = ConnectFailedResults
    /\ UNCHANGED <<immediate_responses, ui_reply, ui_task_id, ui_attempt,
                   ui_queries, ui_waits, ui_status, ui_seen, ui_last, uisessvars,
                   nonuivars>>

\* lines 332-341 with send_message_to_agent (lines 84-168) on reply r
\* mutant: the payload never takes the stored context id
UiPayloadContextMut(cid, stored) == IF Truthy(cid) THEN cid ELSE Absent

\* create_send_message_payload lines 56-70: the contextId of the payload for
\* argument cid and stored current_context_id, Absent when the key is omitted
UiPayloadContext(cid, stored) ==
    LET context_id == IF cid = None THEN stored ELSE cid
    IN  IF Truthy(context_id) THEN context_id ELSE Absent

\* lines 155-160: current_context_id after a reply r that yielded a task id
StoredContext(r, stored) ==
    IF HasAttr(r.contextId) /\ Truthy(r.contextId) THEN r.contextId ELSE stored

UiSend(r) ==
    /\ ui_pc = "send"
    /\ ui_reply' = r
    /\ ui_payload_ctx' = UiPayloadContext(None, current_context_id)
    /\ LET tid == IF r.kind \in {"raise", "noresult"} THEN None
                  ELSE ExtractedTaskId(r)
           text == IF r.kind = "message" THEN ImmediateText(r.parts, None) ELSE None
       IN  IF ~Truthy(tid)
           THEN /\ ui_task_id' = None
                /\ ui_pc' = "done"
                /\ ui_results' = SendFailedResults
                /\ UNCHANGED <<immediate_responses, current_context_id,
                               ui_ctx_received>>
           ELSE /\ ui_task_id' = tid
                /\ ui_pc' = "poll_start"
                /\ current_context_id' = StoredContext(r, current_context_id)
                /\ ui_ctx_received' =
                       IF r.kind = "message" /\ IsStr(r.contextId) /\ r.contextId.s # ""
                       THEN r.contextId ELSE ui_ctx_received
                /\ immediate_responses' =
                       IF Truthy(text) THEN (tid.s :> text.s) @@ immediate_responses
                       ELSE immediate_responses
                /\ UNCHANGED ui_results
    /\ UNCHANGED <<ui_attempt, ui_queries, ui_waits, ui_status, ui_seen, ui_last,
                   ui_polls, nonuivars>>

\* mutant: the stored immediate response is returned and kept
UiPollStartMut ==
    /\ ui_pc = "poll_start"
    /\ ui_polls' = ui_polls + 1
    /\ IF ui_task_id.s \in DOMAIN immediate_responses
       THEN /\ ui_results' = UiResults(immediate_responses[ui_task_id.s], None, TRUE)
            /\ UNCHANGED immediate_responses
            /\ ui_pc' = "done"
            /\ UNCHANGED ui_status
       ELSE /\ ui_status' = "unknown"
            /\ ui_pc' = "poll_query"
            /\ UNCHANGED <<ui_results, immediate_responses>>
    /\ UNCHANGED <<ui_reply, ui_task_id, ui_attempt, ui_queries, ui_waits, ui_seen,
                   ui_last, current_context_id, ui_payload_ctx, ui_ctx_received,
                   nonuivars>>

\* poll_for_task_completion lines 181-203: the stored immediate response is
\* returned and deleted, or polling starts
UiPollStart ==
    /\ ui_pc = "poll_start"
    /\ ui_polls' = ui_polls + 1
    /\ IF ui_task_id.s \in DOMAIN immediate_responses
       THEN /\ ui_results' = UiResults(immediate_responses[ui_task_id.s], None, TRUE)
            /\ immediate_responses' =
                   [k \in DOMAIN immediate_responses \ {ui_task_id.s} |->
                        immediate_responses[k]]
            /\ ui_pc' = "done"
            /\ UNCHANGED ui_status
       ELSE /\ ui_status' = "unknown"
            /\ ui_pc' = "poll_query"
            /\ UNCHANGED <<ui_results, immediate_responses>>
    /\ UNCHANGED <<ui_reply, ui_task_id, ui_attempt, ui_queries, ui_waits, ui_seen,
                   ui_last, current_context_id, ui_payload_ctx, ui_ctx_received,
                   nonuivars>>

\* lines 205-263: one get_task request with outcome o
UiPollQuery(o) ==
    /\ ui_pc = "poll_query"
    /\ ui_queries' = ui_queries + 1
    /\ ui_seen' = ui_seen \cup {UiKind(o)}
    /\ ui_last' = o
    /\ ui_status' = IF o.kind = "task" /\ o.state # "" THEN o.state ELSE ui_status
    /\ LET out == UiPollAttempt(MAX_RETRIES, ui_attempt, o)
       IN  /\ ui_pc' = IF out.step = "return" THEN "done"
                       ELSE IF out.step = "sleep" THEN "poll_sleep"
                       ELSE "poll_query"
           /\ ui_results' = out.results
           /\ ui_attempt' = IF out.step = "next" THEN ui_attempt + 1 ELSE ui_attempt
    /\ UNCHANGED <<immediate_responses, ui_reply, ui_task_id, ui_waits, uisessvars,
                   nonuivars>>

\* line 256: asyncio.sleep(RETRY_DELAY) ends and the loop takes its next index
UiPollWake ==
    /\ ui_pc = "poll_sleep"
    /\ ui_waits' = ui_waits + 1
    /\ ui_attempt' = ui_attempt + 1
    /\ ui_pc' = "poll_query"
    /\ UNCHANGED <<immediate_responses, ui_reply, ui_task_id, ui_queries, ui_status,
                   ui_seen, ui_results, ui_last, uisessvars, nonuivars>>

UiNext ==
    \/ \E ok \in BOOLEAN : UiConnect(ok)
    \/ \E r \in UiReplies : UiSend(r)
    \/ UiPollStart
    \/ \E o \in UiTaskResponses : UiPollQuery(o)
    \/ UiPollWake

UiSpec == UiInit /\ [][UiNext]_vars

-----------------------------------------------------------------------------
\* ui/a2a_app.py: one Streamlit session, a sequence of requests

MaxUiPolls == 2

\* the replies and get_task outcomes the session draws from
SessContextIds == {Absent, None, Str(""), Str("c1"), Str("c2")}

SessReplies ==
    {UiReply("raise", ConnectError, <<>>, Absent, Absent),
     UiReply("noresult", NoExc, <<>>, Absent, Absent),
     UiReply("dict", NoExc, <<>>, Str("t1"), Absent)}
    \cup {UiReply("message", NoExc, ps, t, c) :
            ps \in {<<>>, <<Str("Hello")>>}, t \in {None, Str("t1")},
            c \in SessContextIds}

SessOutcomes ==
    {TaskResponse("raise", ConnectError, "", None, NoArtifacts),
     TaskResponse("noresult", NoExc, "", None, NoArtifacts),
     TaskResponse("task", NoExc, "running", None, NoArtifacts),
     TaskResponse("task", NoExc, "failed", Str("bad input"), NoArtifacts),
     TaskResponse("task", NoExc, "completed", None,
                  ArtifactsVal("list", <<Artifact(TRUE, TRUE,
                        <<PartData(TRUE, Str("A"), Absent)>>)>>))}

\* main lines 459-474: the next chat input starts run_agent_logic_a2a; the
\* locals of the earlier run are gone
UiPrompt ==
    /\ ui_pc = "done"
    /\ ui_pc' = "connect"
    /\ ui_reply' = UiReply("none", NoExc, <<>>, Absent, Absent)
    /\ ui_task_id' = None
    /\ ui_attempt' = 0
    /\ ui_queries' = 0
    /\ ui_waits' = 0
    /\ ui_status' = ""
    /\ ui_seen' = {}
    /\ ui_results' = NoUiResults
    /\ ui_last' = NoResponse
    /\ ui_payload_ctx' = Absent
    /\ ui_polls' = 0
    /\ UNCHANGED <<immediate_responses, current_context_id, ui_ctx_received,
                   nonuivars>>

\* main lines 424-427 with initialize_session_state (lines 365-374): the
\* button "New Session" clears st.session_state and the rerun sets
\* current_context_id to None
UiNewSession ==
    /\ ui_pc = "done"
    /\ current_context_id' = None
    /\ immediate_responses' = <<>>
    /\ ui_ctx_received' = Absent
    /\ UNCHANGED <<ui_pc, ui_reply, ui_task_id, ui_attempt, ui_queries, ui_waits,
                   ui_status, ui_seen, ui_results, ui_last, ui_payload_ctx,
                   ui_polls, nonuivars>>

\* poll_for_task_completion is called once more with the same task id
UiPollAgain ==
    /\ ui_pc = "done"
    /\ Truthy(ui_task_id)
    /\ ui_polls < MaxUiPolls
    /\ ui_pc' = "poll_start"
    /\ ui_attempt' = 0
    /\ ui_queries' = 0
    /\ ui_waits' = 0
    /\ ui_status' = ""
    /\ ui_seen' = {}
    /\ ui_results' = NoUiResults
    /\ ui_last' = NoResponse
    /\ UNCHANGED <<immediate_responses, ui_reply, ui_task_id, uisessvars, nonuivars>>

SessNext ==
    \/ \E ok \in BOOLEAN : UiConnect(ok)
    \/ \E r \in SessReplies : UiSend(r)
    \/ UiPollStart
    \/ \E o \in SessOutcomes : UiPollQuery(o)
    \/ UiPollWake
    \/ UiPrompt
    \/ UiNewSession
    \/ UiPollAgain

SessSpec == UiInit /\ [][SessNext]_vars

-----------------------------------------------------------------------------
\* _poll_task_completion and poll_for_task_completion run with the same number
\* of attempts on the same sequence of get_task outcomes

MaxBudget == 3

RefOutcomes ==
    { TaskResponse("raise", Exc("Exception", "Read timed out"), "", None, NoArtifacts),
      TaskResponse("noresult", NoExc, "", None, NoArtifacts),
      TaskResponse("task", NoExc, "submitted", None, NoArtifacts),
      TaskResponse("task", NoExc, "pending", None, NoArtifacts),
      TaskResponse("task", NoExc, "running", None, NoArtifacts),
      TaskResponse("task", NoExc, "failed", Str("bad input"), NoArtifacts),
      TaskResponse("task", NoExc, "completed", None, NoArtifacts),
      TaskResponse("task", NoExc, "completed", None,
                   ArtifactsVal("list", <<Artifact(TRUE, TRUE,
                        <<PartData(TRUE, Str("A"), Absent)>>)>>)) }

\* position of one poller: pc is "query", "sleep" or "done"
RefRun(p, att, q, result) ==
    [pc |-> p, attempt |-> att, queries |-> q, result |-> result]

RefInit ==
    /\ HostIdle
    /\ ConcIdle
    /\ PayIdle
    /\ StartIdle
    /\ UiIdle
    /\ ExecIdle
    /\ TestIdle
    /\ ref_budget \in 1..MaxBudget
    /\ ref_outcomes \in [1..ref_budget -> RefOutcomes]
    /\ ref_client = RefRun("query", 0, 0, NoDict)
    /\ ref_ui = RefRun("query", 0, 0, NoUiResults)

\* one get_task request of _poll_task_completion
RefClientQuery ==
    /\ ref_client.pc = "query"
    /\ LET out == PollAttemptWith(ref_budget, ref_client.attempt,
                                  ref_outcomes[ref_client.queries + 1])
       IN  ref_client' =
               RefRun(IF out.returns THEN "done" ELSE "sleep", ref_client.attempt,
                      ref_client.queries + 1, out.result)
    /\ UNCHANGED <<ref_budget, ref_outcomes, ref_ui, nonrefvars>>

\* asyncio.sleep(retry_delay) of _poll_task_completion ends
RefClientWake ==
    /\ ref_client.pc = "sleep"
    /\ ref_client' = [ref_client EXCEPT !.pc = "query", !.attempt = @ + 1]
    /\ UNCHANGED <<ref_budget, ref_outcomes, ref_ui, nonrefvars>>

\* one get_task request of poll_for_task_completion
RefUiQuery ==
    /\ ref_ui.pc = "query"
    /\ LET out == UiPollAttempt(ref_budget, ref_ui.attempt,
                                ref_outcomes[ref_ui.queries + 1])
       IN  ref_ui' =
               RefRun(IF out.step = "return" THEN "done"
                      ELSE IF out.step = "sleep" THEN "sleep" ELSE "query",
                      IF out.step = "next" THEN ref_ui.attempt + 1 ELSE ref_ui.attempt,
                      ref_ui.queries + 1, out.results)
    /\ UNCHANGED <<ref_budget, ref_outcomes, ref_client, nonrefvars>>

\* asyncio.sleep(RETRY_DELAY) of poll_for_task_completion ends
RefUiWake ==
    /\ ref_ui.pc = "sleep"
    /\ ref_ui' = [ref_ui EXCEPT !.pc = "query", !.attempt = @ + 1]
    /\ UNCHANGED <<ref_budget, ref_outcomes, ref_client, nonrefvars>>

RefNext ==
    \/ RefClientQuery
    \/ RefClientWake
    \/ RefUiQuery
    \/ RefUiWake

RefSpec == RefInit /\ [][RefNext]_vars

-----------------------------------------------------------------------------
\* Concurrent calls of execute on one agent executor
\*   notion_agent/agent_executor.py      NotionADKAgentExecutor
\*   elevenlabs_agent/agent_executor.py  ElevenLabsADKAgentExecutor
\* The calls run on one event loop: a step is the code between two awaits.

\* the concurrent calls of execute
ExecCalls == {1, 2}

Executors == {"notion", "elevenlabs"}

\* self.agent.name of the two executors
ExecAgentName(ex) ==
    IF ex = "notion" THEN "notion_agent_mcp" ELSE "elevenlabs_agent_mcp"

\* the text used when context.get_user_input() is empty
DefaultInput(ex) == IF ex = "notion" THEN "Search for recent pages" ELSE "Hello"

\* the text sent when the run yields no final text
DefaultResponse(ex) ==
    IF ex = "notion" THEN "(No search results found)" ELSE "(No response generated)"

\* the text the except clause sends for the exception message msg
ErrorResponse(ex, msg) ==
    IF ex = "notion" THEN "Error searching Notion workspace: " \o msg
    ELSE "Error processing your request for " \o ExecAgentName(ex) \o ": " \o msg

\* str(uuid.uuid4()): a session id no other call has
Uuid4(i) == "uuid-" \o ToString(i)

\* context.task_id or str(uuid.uuid4())
SessionIdOf(ctx, i) == IF Truthy(ctx.task_id) THEN ctx.task_id.s ELSE Uuid4(i)

\* new_agent_text_message(text, context_id=..., task_id=...)
NewAgentTextMessage(text, cid, tid) ==
    [kind |-> "message", role |-> "agent", text |-> text,
     context_id |-> cid, task_id |-> tid]

\* request contexts of the calls
ExecTaskIds == {None, Str("t1"), Str("t2")}
ExecContextIds == {None, Str("c1")}
ExecContexts == [task_id : ExecTaskIds, context_id : ExecContextIds]
\* values of context.get_user_input()
ExecInputs == {"", "find notes"}
\* messages of the exceptions a step raises; "" for a step that does not raise
ExecFaults == {"", "boom"}
\* what the run of the agent yields: its first final model text, "" for none
ExecRunTexts == {"", "answer"}

ExecPcValues == {"input", "get_session", "create_session", "run", "done"}

ExecInit ==
    /\ HostIdle
    /\ ConcIdle
    /\ PayIdle
    /\ StartIdle
    /\ UiIdle
    /\ RefIdle
    /\ TestIdle
    /\ ex_executor \in Executors
    /\ ex_context \in [ExecCalls -> ExecContexts]
    /\ ex_pc = [i \in ExecCalls |-> "input"]
    /\ ex_input = [i \in ExecCalls |-> ""]
    /\ ex_session_id = [i \in ExecCalls |-> ""]
    /\ ex_found = [i \in ExecCalls |-> FALSE]
    /\ ex_text = [i \in ExecCalls |-> ""]
    /\ ex_raised = [i \in ExecCalls |-> ""]
    /\ ex_out = [i \in ExecCalls |-> "running"]
    /\ adk_sessions = {}
    /\ session_creates = [sid \in {} |-> 0]
    /\ event_queue = [i \in ExecCalls |-> <<>>]

\* event_queue.enqueue_event(new_agent_text_message(...)) of call i
EnqueueText(i, text) ==
    event_queue' =
        [event_queue EXCEPT ![i] =
            Append(@, NewAgentTextMessage(text, ex_context[i].context_id,
                                          ex_context[i].task_id))]

\* an except clause that passes the exception on and sends nothing
HandleErrorMut(i, step, msg) ==
    /\ ex_raised' = [ex_raised EXCEPT ![i] = step]
    /\ ex_pc' = [ex_pc EXCEPT ![i] = "done"]
    /\ ex_out' = [ex_out EXCEPT ![i] = "raised"]
    /\ UNCHANGED event_queue

\* except Exception as e: the error text is enqueued and execute returns
HandleError(i, step, msg) ==
    /\ EnqueueText(i, ErrorResponse(ex_executor, msg))
    /\ ex_raised' = [ex_raised EXCEPT ![i] = step]
    /\ ex_pc' = [ex_pc EXCEPT ![i] = "done"]
    /\ ex_out' = [ex_out EXCEPT ![i] = "returned"]

\* user input and session identifiers, up to the await of get_session
ExecInput(i, inp, fault) ==
    /\ ex_pc[i] = "input"
    /\ IF fault # ""
       THEN /\ HandleError(i, "input", fault)
            /\ UNCHANGED <<ex_input, ex_session_id>>
       ELSE /\ ex_input' = [ex_input EXCEPT ![i] =
                               IF inp = "" THEN DefaultInput(ex_executor) ELSE inp]
            /\ ex_session_id' = [ex_session_id EXCEPT ![i] = SessionIdOf(ex_context[i], i)]
            /\ ex_pc' = [ex_pc EXCEPT ![i] = "get_session"]
            /\ UNCHANGED <<event_queue, ex_raised, ex_out>>
    /\ UNCHANGED <<ex_executor, ex_context, ex_found, ex_text, adk_sessions,
                   session_creates>>
    /\ UNCHANGED nonexecvars

\* await session_service.get_session(...) and the test of its result
ExecGetSession(i, fault) ==
    /\ ex_pc[i] = "get_session"
    /\ IF fault # ""
       THEN /\ HandleError(i, "session", fault)
            /\ UNCHANGED ex_found
       ELSE /\ ex_found' = [ex_found EXCEPT ![i] = ex_session_id[i] \in adk_sessions]
            /\ ex_pc' = [ex_pc EXCEPT ![i] =
                            IF ex_session_id[i] \in adk_sessions THEN "run"
                            ELSE "create_session"]
            /\ UNCHANGED <<event_queue, ex_raised, ex_out>>
    /\ UNCHANGED <<ex_executor, ex_context, ex_input, ex_session_id, ex_text,
                   adk_sessions, session_creates>>
    /\ UNCHANGED nonexecvars

\* one more session created under session id sid
CountCreate(sid) ==
    IF sid \in DOMAIN session_creates
    THEN [session_creates EXCEPT ![sid] = @ + 1]
    ELSE session_creates @@ (sid :> 1)

\* await session_service.create_session(..., state={})
ExecCreateSession(i, fault) ==
    /\ ex_pc[i] = "create_session"
    /\ IF fault # ""
       THEN /\ HandleError(i, "session", fault)
            /\ UNCHANGED <<adk_sessions, session_creates>>
       ELSE /\ adk_sessions' = adk_sessions \cup {ex_session_id[i]}
            /\ session_creates' = CountCreate(ex_session_id[i])
            /\ ex_pc' = [ex_pc EXCEPT ![i] = "run"]
            /\ UNCHANGED <<event_queue, ex_raised, ex_out>>
    /\ UNCHANGED <<ex_executor, ex_context, ex_input, ex_session_id, ex_found,
                   ex_text>>
    /\ UNCHANGED nonexecvars

\* the run of the agent to its end, and the send of the final text
ExecRun(i, text, fault) ==
    /\ ex_pc[i] = "run"
    /\ IF fault # ""
       THEN /\ HandleError(i, "run", fault)
            /\ UNCHANGED ex_text
       ELSE /\ ex_text' = [ex_text EXCEPT ![i] =
                              IF text = "" THEN DefaultResponse(ex_executor) ELSE text]
            /\ EnqueueText(i, ex_text'[i])
            /\ ex_pc' = [ex_pc EXCEPT ![i] = "done"]
            /\ ex_out' = [ex_out EXCEPT ![i] = "returned"]
            /\ UNCHANGED ex_raised
    /\ UNCHANGED <<ex_executor, ex_context, ex_input, ex_session_id, ex_found,
                   adk_sessions, session_creates>>
    /\ UNCHANGED nonexecvars

ExecNext ==
    \E i \in ExecCalls :
        \/ \E inp \in ExecInputs, fault \in ExecFaults : ExecInput(i, inp, fault)
        \/ \E fault \in ExecFaults : ExecGetSession(i, fault)
        \/ \E fault \in ExecFaults : ExecCreateSession(i, fault)
        \/ \E text \in ExecRunTexts, fault \in ExecFaults : ExecRun(i, text, fault)

ExecSpec == ExecInit /\ [][ExecNext]_vars

-----------------------------------------------------------------------------
\* The polling loops of the two test clients
\*   host_agent/test_client.py    run_host_agent_test
\*   notion_agent/test_client.py  _execute_and_poll_task

\* max_retries and retry_delay of run_host_agent_test
host_test_max_retries == 15
host_test_retry_delay == 3
\* max_retries and retry_delay of _execute_and_poll_task
notion_test_max_retries == 10
notion_test_retry_delay == 2

TestClients == {"host", "notion"}
TestMaxRetries(c) ==
    IF c = "host" THEN host_test_max_retries ELSE notion_test_max_retries
TestRetryDelay(c) ==
    IF c = "host" THEN host_test_retry_delay ELSE notion_test_retry_delay

\* what one await of client.get_task(...) gives the loop:
\*   "raise"     the call raises
\*   "error"     an error response, or a success response without result
\*   "nostatus"  a task whose status is None
\*   "status"    a task with status.state = state
TestOutcome(kind, state) == [kind |-> kind, state |-> state]
TestStates == {"submitted", "working", "canceled", "completed", "failed"}
TestOutcomes ==
    {TestOutcome("raise", ""), TestOutcome("error", ""), TestOutcome("nostatus", "")}
        \cup {TestOutcome("status", st) : st \in TestStates}

\* task_status in ["completed", "failed"]
TestFinal(status) == status \in {"completed", "failed"}

\* task_status after the response o
TestStatusAfter(status, o) == IF o.kind = "status" THEN o.state ELSE status

\* an end of the attempt that waits after the last attempt as well
TestAfterAttemptMut(c, att, status) ==
    IF TestFinal(status) THEN "done"
    ELSE IF att < TestMaxRetries(c) THEN "sleep"
    ELSE "done"

\* where the loop goes after attempt att left task_status = status:
\* the break of a final status, the sleep before the next attempt, or the
\* break of the last attempt
TestAfterAttempt(c, att, status) ==
    IF TestFinal(status) THEN "done"
    ELSE IF att < TestMaxRetries(c) - 1 THEN "sleep"
    ELSE "done"

TestPcValues == {"idle", "query", "sleep", "done", "raised"}

TestInit ==
    /\ HostIdle
    /\ ConcIdle
    /\ PayIdle
    /\ StartIdle
    /\ UiIdle
    /\ RefIdle
    /\ ExecIdle
    /\ tc_client \in TestClients
    /\ tc_pc = "query"
    /\ tc_attempt = 0
    /\ tc_queries = 0
    /\ tc_waits = 0
    /\ tc_slept = 0
    /\ tc_status = "unknown"
    /\ tc_terminals = 0

\* one pass of the loop body: the request and the handling of its response
TestQuery(o) ==
    /\ tc_pc = "query"
    /\ tc_queries' = tc_queries + 1
    /\ IF o.kind = "raise"
       THEN /\ tc_pc' = "raised"
            /\ UNCHANGED <<tc_status, tc_terminals>>
       ELSE /\ tc_status' = TestStatusAfter(tc_status, o)
            /\ tc_terminals' =
                   IF o.kind = "status" /\ TestFinal(o.state)
                   THEN tc_terminals + 1 ELSE tc_terminals
            /\ tc_pc' = TestAfterAttempt(tc_client, tc_attempt, tc_status')
    /\ UNCHANGED <<tc_client, tc_attempt, tc_waits, tc_slept>>
    /\ UNCHANGED nontestvars

\* await asyncio.sleep(retry_delay) and the next value of attempt; the for
\* loop ends when range(max_retries) has no next value
TestWake ==
    /\ tc_pc = "sleep"
    /\ tc_waits' = tc_waits + 1
    /\ tc_slept' = tc_slept + TestRetryDelay(tc_client)
    /\ tc_attempt' = tc_attempt + 1
    /\ tc_pc' = IF tc_attempt + 1 < TestMaxRetries(tc_client) THEN "query" ELSE "done"
    /\ UNCHANGED <<tc_client, tc_queries, tc_status, tc_terminals>>
    /\ UNCHANGED nontestvars

TestNext ==
    \/ \E o \in TestOutcomes : TestQuery(o)
    \/ TestWake

TestSpec == TestInit /\ [][TestNext]_vars

-----------------------------------------------------------------------------
\* Vocabulary of the properties

Ended == pc \in {"closing", "dt_done", "done"}
RegistryKeys == {"notion_agent", "elevenlabs_agent"}

\* the text an inline part carries, "" when it carries none
InlineText(part) ==
    IF part.hasRoot /\ part.rootText.ty = "str" THEN part.rootText.s
    ELSE IF part.text.ty = "str" THEN part.text.s
    ELSE ""

\* the non-empty text fragments of the inline parts, in part order
InlineFragments(r) ==
    IF r.kind = "obj" /\ r.parts.kind = "list"
    THEN SelectSeq([i \in 1..Len(r.parts.items) |-> InlineText(r.parts.items[i])],
                   LAMBDA t : t # "")
    ELSE <<>>

\* t1, then "\n" and the next fragment for each further one
RECURSIVE NewlineJoined(_, _)
NewlineJoined(acc, rest) ==
    IF rest = <<>> THEN acc
    ELSE NewlineJoined(acc \o "\n" \o Head(rest), Tail(rest))

\* the reply carries no inline text at all
NoInlineText(r) ==
    /\ r.kind \in {"obj", "dict"}
    /\ r.parts.kind \in {"absent", "list"}
    /\ InlineFragments(r) = <<>>
    /\ r.text.ty # "str"

\* the task handle of the reply, "" when it carries none
Handle(r) == IF r.taskId.ty = "str" THEN r.taskId.s ELSE ""

\* C1: for every agent name that is not a key of AGENT_URL_MAP, delegate_task
\* returns an error string that lists all valid agent names, and the call
\* creates no HTTP client, fetches no card, sends no message, polls no task.
UnknownAgentFailsFast ==
    (bridge # "none" /\ agent_name \notin RegistryKeys) =>
        /\ clients_created = 0 /\ card_fetches = 0 /\ sends = 0 /\ queries = 0
        /\ pc \in {"dt_start", "dt_done", "done"}
        /\ pc \in {"dt_done", "done"} =>
            /\ dt_out.kind = "str"
            /\ StartsWith(dt_out.s, "Error")
            /\ \A n \in RegistryKeys : Contains(dt_out.s, "'" \o n \o "'")

UnknownAgentFailsFastWitness ==
    /\ pc = "done"
    /\ agent_name = "weather_agent"
    /\ ret.kind = "str"
    /\ Contains(ret.s, "notion_agent") /\ Contains(ret.s, "elevenlabs_agent")

\* C2: delegate_task_sync always returns a string and never raises, whatever
\* the outcome of the pipeline, on both bridge branches.
SyncNeverRaises ==
    /\ ret.kind # "raise"
    /\ pc = "done" => ret.kind = "str"

SyncNeverRaisesWitness ==
    /\ pc = "done"
    /\ bridge = "worker"
    /\ outer = "waiting"
    /\ dt_out.kind = "raise"
    /\ dt_out.exc.type = "RuntimeError"
    /\ ret.kind = "str"

\* C3: when the reply holds an inline part with non-empty text, invoke_agent
\* returns the inline text as its result and issues no task query, even when
\* the reply also carries a task handle.
ImmediateTakesPrecedence ==
    InlineFragments(reply) # <<>> =>
        /\ Ended
        /\ invoke_result.key = "result"
        /\ \A i \in 1..Len(InlineFragments(reply)) :
                Contains(invoke_result.val, InlineFragments(reply)[i])
        /\ queries = 0 /\ queried = {}

ImmediateTakesPrecedenceWitness ==
    /\ pc = "closing"
    /\ InlineFragments(reply) # <<>>
    /\ Handle(reply) = "t1"
    /\ invoke_result.key = "result"
    /\ queries = 0

\* C4: the immediate result is the text fragments of the inline parts joined
\* in part order with a newline; parts without text add nothing.
ImmediateIsNewlineJoin ==
    InlineFragments(reply) # <<>> =>
        /\ invoke_result =
              Dict("result", NewlineJoined(Head(InlineFragments(reply)),
                                           Tail(InlineFragments(reply))))
        /\ InlineFragments(reply) = <<"A", "B">> => invoke_result.val = "A\nB"

ImmediateIsNewlineJoinWitness ==
    /\ pc = "closing"
    /\ InlineFragments(reply) = <<"A", "B">>
    /\ invoke_result.val = "A\nB"

\* C5: for a reply with no inline text, a string task handle starts the
\* poller on exactly that handle; without a handle an error result is
\* returned and no task query is issued.
DeferredOrNoResult ==
    /\ pc \in {"poll_query", "poll_sleep", "closing"} => queried \subseteq {task_id}
    /\ NoInlineText(reply) =>
        IF Handle(reply) # ""
        THEN pc = "poll_query" /\ attempt = 0 /\ queries = 0
                /\ task_id = Handle(reply)
        ELSE Ended /\ invoke_result.key = "error" /\ queries = 0

DeferredOrNoResultWitness ==
    /\ pc = "poll_query"
    /\ NoInlineText(reply)
    /\ Handle(reply) = "t2"
    /\ task_id = "t2"

\* C6: once a query returns a task whose status is completed, failed or
\* canceled, _poll_task_completion returns on that attempt, so that no further
\* query is issued for the task.
TerminalStatusEndsPolling ==
    (last.kind = "task" /\ last.state \in TerminalStates) => Ended

\* C7: a task that is non-terminal on attempts 1..k-1 and completed on attempt
\* k makes _poll_task_completion return on attempt k, after exactly k queries
\* and one walk of the artifacts, a success result fixed by the artifacts.
CompletedAtKReturnsOnce ==
    (last.kind = "task" /\ last.state = "completed"
        /\ earlier \in {"pending", "nonterminal"}) =>
        /\ Ended
        /\ queries = attempt + 1
        /\ walks = 1
        /\ invoke_result = CompletedResult(last.artifacts.items)

\* the message of a failed task, "Task failed" when it has none
FailureText(o) ==
    IF o.message.ty = "str" /\ o.message.s # "" THEN o.message.s ELSE "Task failed"

\* C8: when a poll observes status failed, _poll_task_completion returns an
\* error whose text is the status message unchanged, or "Task failed" when
\* there is none, and the string delegate_task returns contains it verbatim.
FailedMessagePassedThrough ==
    /\ (last.kind = "task" /\ last.state = "failed") =>
        /\ Ended
        /\ invoke_result = Dict("error", FailureText(last))
        /\ Contains(dt_value, FailureText(last))
    /\ (pc \in {"dt_done", "done"} /\ dt_out.kind = "str" /\ clients_closed > 0) =>
        dt_out.s = dt_value

FailedMessagePassedThroughWitness ==
    /\ pc = "closing"
    /\ last.state = "failed"
    /\ last.message = Str("bad input")
    /\ invoke_result.val = "bad input"
    /\ Contains(dt_value, "bad input")

\* C9: when a poll observes status canceled, the delegation ends as a failure
\* with a message of its own, distinct from the timeout, transport-error and
\* unexpected-format messages.
CanceledHasOwnMessage ==
    (Ended /\ last.kind = "task" /\ last.state = "canceled") =>
        /\ invoke_result.key = "error"
        /\ invoke_result \notin {TimeoutError, FormatError}
        /\ ~StartsWith(invoke_result.val, "Task polling error")

\* every query so far was answered with a task in status pending
AllPending ==
    last.kind = "task" /\ last.state = "pending" /\ earlier = "pending"

\* C10: for a task pending on every query, _poll_task_completion returns the
\* timeout error after exactly max_retries queries and max_retries - 1 waits
\* of retry_delay, with no wait after the last query.
AlwaysPendingTimesOut ==
    AllPending =>
        /\ queries <= max_retries
        /\ pc \in {"poll_query", "poll_sleep"} =>
                queries < max_retries /\ waits = queries
        /\ queries = max_retries => Ended
        /\ Ended =>
            /\ queries = max_retries
            /\ waits = max_retries - 1
            /\ slept = (max_retries - 1) * retry_delay
            /\ invoke_result = Dict("error", "Task did not complete within timeout")

AlwaysPendingTimesOutWitness ==
    /\ pc = "closing"
    /\ AllPending
    /\ queries = 10
    /\ waits = 9
    /\ slept = 18

\* every query so far was answered with a task in a non-terminal status
AllNonTerminal ==
    /\ last.kind = "task" /\ last.state \in NonTerminalStates
    /\ earlier \in {"pending", "nonterminal"}

\* C11: when every query is answered with a non-terminal status (submitted,
\* pending or running, in any mix), _poll_task_completion waits retry_delay
\* after each of the first max_retries - 1 attempts and returns the timeout
\* error at exhaustion, submitted being handled like pending and running.
NonTerminalTimesOut ==
    AllNonTerminal =>
        /\ pc \in {"poll_query", "poll_sleep"} =>
                queries < max_retries /\ waits = queries
        /\ Ended =>
            /\ queries = max_retries
            /\ waits = max_retries - 1
            /\ invoke_result = TimeoutError

\* C12: when a get_task request raises and attempts remain, the poller waits
\* retry_delay and queries again without surfacing the error, and a failed or
\* completed status answered to the next query is reported as usual; when the
\* request of the last attempt raises, the returned error carries the text of
\* the exception.
TransportErrorRetried ==
    /\ [](last.kind = "raise" =>
            /\ pc \in {"poll_query", "poll_sleep", "closing"}
            /\ pc \in {"poll_query", "poll_sleep"} =>
                    /\ attempt < max_retries
                    /\ queries < max_retries
                    /\ waits = queries
                    /\ slept = queries * retry_delay
                    /\ invoke_result = NoDict
            /\ pc = "closing" =>
                    /\ attempt = max_retries - 1
                    /\ queries = max_retries
                    /\ invoke_result.key = "error"
                    /\ Contains(invoke_result.val, last.exc.msg)
                    /\ Contains(dt_value, last.exc.msg))
    /\ [][(last.kind = "raise" /\ pc = "poll_sleep" /\ pc' # pc) =>
            (pc' = "poll_query" /\ attempt' = attempt + 1 /\ queries' = queries)]_vars
    /\ [][(last.kind = "raise" /\ pc = "poll_query" /\ last'.kind = "task") =>
            /\ last'.state = "failed" =>
                    pc' = "closing" /\ invoke_result' = Dict("error", FailureText(last'))
            /\ (last'.state = "completed" /\ last'.artifacts.kind = "list"
                    /\ last'.artifacts.items # <<>>) =>
                    /\ pc' = "closing"
                    /\ invoke_result' = CompletedResult(last'.artifacts.items)]_vars

TransportErrorRetriedWitness ==
    /\ pc = "closing"
    /\ last.kind = "raise"
    /\ last.exc = ConnectError
    /\ queries = max_retries
    /\ waits = max_retries - 1
    /\ invoke_result.val = "Task polling error: All connection attempts failed"

\* a completed task record from which no text and no audio URL can be taken:
\* artifacts None, an empty list, or parts without text and audio_url only
CompletedWithoutContent(o) ==
    /\ o.kind = "task" /\ o.state = "completed"
    /\ o.artifacts.kind = "none" \/ ArtifactResults(o.artifacts.items) = <<>>

\* C13: when a task is observed completed and no text and no audio URL can be
\* extracted, the poller returns on that attempt and the delegation yields the
\* error "No content received", never a successful result.
NoContentIsError ==
    CompletedWithoutContent(last) =>
        /\ Ended
        /\ invoke_result = Dict("error", "No content received")
        /\ StartsWith(dt_value, "Error")
        /\ Contains(dt_value, "No content received")

\* the parts of the artifacts of a completed record, in artifact order, then
\* part order
RECURSIVE PartsInOrder(_)
PartsInOrder(items) ==
    IF items = <<>> THEN <<>>
    ELSE Head(items).parts \o PartsInOrder(Tail(items))

\* the fields of one name that are present and not empty, in that order
RECURSIVE FieldsInOrder(_, _)
FieldsInOrder(parts, name) ==
    IF parts = <<>> THEN <<>>
    ELSE (IF Head(parts)[name].ty = "str" /\ Head(parts)[name].s # ""
          THEN <<Head(parts)[name].s>> ELSE <<>>)
         \o FieldsInOrder(Tail(parts), name)

TextsOf(o) == FieldsInOrder(PartsInOrder(o.artifacts.items), "text")
AudioUrlsOf(o) == FieldsInOrder(PartsInOrder(o.artifacts.items), "audio_url")

\* C14: for a completed task whose artifacts hold the audio URLs u1 then u2,
\* the result of the poller does not contain u2, and its text is the text
\* parts joined with a newline, nothing else.
FirstAudioWins ==
    (pc = "closing" /\ last.kind = "task" /\ last.state = "completed"
        /\ AudioUrlsOf(last) = <<"u1", "u2">>) =>
        /\ invoke_result.key = "result"
        /\ ~Contains(invoke_result.val, "u2")
        /\ invoke_result.val = Join("\n", TextsOf(last))

\* C15: when _poll_task_completion is called twice in a row on a handle whose
\* record is completed and does not change, each call issues exactly one
\* query and the second call returns a result equal to that of the first.
RepeatedPollSameResult ==
    \A i \in 1..Len(polled) :
        /\ polled[i].queries = 1
        /\ polled[i].result.key = "result"
        /\ polled[i].result = polled[1].result

\* C16: one call of delegate_task_sync issues at most one send_message
\* request, on both branches of the bridge, and exactly one once the agent is
\* known and its card is resolved; a send that failed or whose reply is
\* unusable ends invoke_agent and is not issued again, only get_task requests
\* are repeated.
SendsAtMostOnce ==
    /\ sends <= 1 /\ card_fetches <= 1
    /\ pc \in {"idle", "dt_start", "card"} => sends = 0
    /\ pc \in {"poll_query", "poll_sleep"} => sends = 1
    /\ (pc = "closing" /\ raised = NoExc) => sends = 1
    /\ (pc = "closing" /\ sends = 0) => card_fetches = 1 /\ queries = 0
    /\ agent_name \notin RegistryKeys => sends = 0
    /\ queries > 0 => sends = 1

SendsAtMostOnceWitness ==
    /\ pc = "done"
    /\ bridge = "worker"
    /\ sends = 1
    /\ queries = 0
    /\ invoke_result.key = "error"
    /\ dt_out.kind = "raise" /\ dt_out.exc.type = "RuntimeError"
    /\ ret.kind = "str"

\* the send was answered, and the answer cannot be used: an error response,
\* an empty result, or a result with neither inline text nor a task handle
UnusableReply ==
    /\ sends = 1 /\ raised = NoExc
    /\ \/ reply = NoReply
       \/ reply.kind \in {"none", "emptydict"}
       \/ NoInlineText(reply) /\ Handle(reply) = ""

\* C17: when invoke_agent ends before polling, a connection failure of the
\* card resolution or of the send gives the error "Could not connect to
\* agent ...", an unusable reply gives an error with another text, and the
\* "Could not connect" error has no other cause than a connection failure.
ConnectDistinctFromUnusable ==
    (pc = "closing" /\ queries = 0) =>
        /\ raised = ConnectError =>
            /\ invoke_result.key = "error"
            /\ StartsWith(invoke_result.val,
                          "Could not connect to agent at "
                              \o AGENT_URL_MAP[agent_name])
        /\ UnusableReply =>
            /\ invoke_result.key = "error"
            /\ ~Contains(invoke_result.val, "Could not connect to agent")
        /\ Contains(invoke_result.val, "Could not connect to agent") =>
            raised = ConnectError

ConnectDistinctFromUnusableWitness ==
    /\ pc = "closing"
    /\ sends = 1
    /\ queries = 0
    /\ raised = ConnectError
    /\ StartsWith(invoke_result.val, "Could not connect to agent at http://localhost:8003")

\* a step of delegate_task, on whichever thread runs it
DelegationStep ==
    \/ \E exc \in ClientErrors \cup {NoExc} : DelegateStart(exc)
    \/ \E exc \in CallErrors \cup {ConnectError, NoExc} : CardFetch(exc)
    \/ \E o \in SendOutcomes : SendMessage(o)
    \/ \E o \in TaskResponses : PollQuery(o)
    \/ PollWake
    \/ \E exc \in ClientErrors \cup {NoExc} : Close(exc)

\* C18: delegate_task_sync runs the delegation on the calling thread exactly
\* when that thread has no running event loop, and returns only once it has
\* ended; when the calling thread has a running loop the delegation runs on
\* the worker thread, whose steps never wait for the blocked caller.
BridgeFollowsCallerLoop ==
    /\ bridge # "none" => (bridge = "direct" <=> ~caller_loop)
    /\ bridge # "none" => (bridge = "worker" <=> caller_loop)
    /\ (bridge = "direct" /\ ret # NoOutcome) =>
            /\ pc = "done"
            /\ dt_out.kind = "str" => ret = dt_out
    /\ (caller_loop /\ pc \in PcValues \ {"idle", "dt_done", "done"}) =>
            ENABLED DelegationStep
    /\ (caller_loop /\ pc = "dt_done") => ENABLED BridgeReturn

BridgeFollowsCallerLoopWitness ==
    /\ pc = "done"
    /\ caller_loop
    /\ bridge = "worker"
    /\ outer = "waiting"
    /\ queries = max_retries
    /\ ret = dt_out
    /\ ret.kind = "str"

\* C19: once future.result(timeout=90) has given up on a worker that has not
\* ended, delegate_task_sync can return, whatever the worker does, and what
\* it returns is the error string of the bridge.
OuterTimeoutReleasesCaller ==
    /\ (outer = "timed_out" /\ pc # "done") => ENABLED BridgeReturn
    /\ (outer = "timed_out" /\ pc = "done") =>
            ret.kind = "str" /\ StartsWith(ret.s, "Error in sync delegation wrapper")

\* C20: outer_timeout exceeds the time the pipeline can take, its sleeps of
\* retry_delay and its requests of at most http_timeout each, so that
\* future.result never gives up before delegate_task has ended.
OuterExceedsPipeline ==
    /\ pc \in {"card", "send", "poll_query", "poll_sleep"} =>
            MaxElapsed < outer_timeout
    /\ outer = "waiting"

\* what delegate_task(name, _) returns when it runs alone and invoke_agent
\* obtains remote
SoloResult(name, remote) ==
    IF name \in RegistryKeys
    THEN (IF remote.key = "error" THEN "Error from " \o name \o ": " \o remote.val
          ELSE remote.val)
    ELSE UnknownAgentError(name)

\* C21: in every interleaving of two calls of delegate_task each call creates
\* and closes a client of its own, no call finds its client closed by the
\* other, and each call returns what it returns when run alone on the same
\* remote answers.
ConcurrentCallsIndependent ==
    \A i \in Calls :
        /\ conc_pc[i] = "done" => conc_out[i] = SoloResult(conc_name[i], conc_remote[i])
        /\ conc_pc[i] \in {"card", "send", "closing"} =>
                http_clients[conc_client[i]] = "open"
        /\ (conc_pc[i] = "done" /\ conc_name[i] \in RegistryKeys) =>
                http_clients[conc_client[i]] = "closed"
        /\ conc_name[i] \notin RegistryKeys => conc_client[i] = 0
        /\ \A j \in Calls \ {i} :
                conc_client[i] # 0 => conc_client[i] # conc_client[j]

ConcurrentCallsIndependentWitness ==
    /\ conc_pc[1] = "done" /\ conc_out[1] = "A"
    /\ conc_pc[2] = "send" /\ conc_remote[2] = Dict("result", "B")
    /\ http_clients[conc_client[1]] = "closed"
    /\ http_clients[conc_client[2]] = "open"

\* C22: whatever the remote answers, _poll_task_completion issues at most
\* max_retries queries and max_retries - 1 waits, each of its steps takes it
\* further through the loop or ends it, and the query of a loop index is
\* issued only once every earlier query has been answered or has raised.
PollingIsBoundedAndSequential ==
    /\ [](/\ queries <= max_retries
          /\ waits <= max_retries - 1
          /\ attempt < max_retries
          /\ pc = "poll_query" => queries = attempt /\ waits = attempt
          /\ pc = "poll_sleep" => queries = attempt + 1 /\ waits = attempt + 1
          /\ (pc = "closing" /\ queries > 0) => queries = attempt + 1)
    /\ [][(pc \in {"poll_query", "poll_sleep"} /\ pc' # pc) =>
            \/ pc' = "closing"
            \/ pc = "poll_query" /\ pc' = "poll_sleep" /\ attempt' = attempt
                    /\ queries' = queries + 1
            \/ pc = "poll_sleep" /\ pc' = "poll_query" /\ attempt' = attempt + 1
                    /\ queries' = queries]_vars

PollingIsBoundedAndSequentialWitness ==
    /\ pc = "closing"
    /\ queries = max_retries
    /\ waits = max_retries - 1
    /\ last.kind = "task" /\ last.state = "canceled"
    /\ earlier = "mixed"
    /\ invoke_result.key = "error"

\* the call of delegate_task_sync that has returned was a failed delegation
DelegationFailed ==
    \/ agent_name \notin RegistryKeys
    \/ invoke_result.key = "error"
    \/ dt_out.kind = "raise"
    \/ outer = "timed_out"

\* C23: a string returned for a failed delegation starts with "Error: " and,
\* when invoke_agent reported the failure, contains its reason and the agent
\* name; every other returned string is the result text of invoke_agent.
FailuresStartWithErrorColon ==
    (pc = "done" /\ ret.kind = "str") =>
        IF DelegationFailed
        THEN /\ StartsWith(ret.s, "Error: ")
             /\ (invoke_result.key = "error" /\ dt_out.kind = "str"
                    /\ outer = "waiting") =>
                    Contains(ret.s, invoke_result.val) /\ Contains(ret.s, agent_name)
        ELSE invoke_result.key = "result" /\ ret.s = invoke_result.val

\* C24: on every path invoke_agent returns a dict with the one key "result"
\* or "error" and a non-empty value, so that delegate_task never answers
\* "Unexpected response format" or "Invalid response format".
InvokeResultWellFormed ==
    /\ pc \in {"closing", "dt_done", "done"} =>
        invoke_result = NoDict \/
            /\ invoke_result.key \in {"result", "error"}
            /\ invoke_result.val # ""
    /\ pc = "closing" =>
        /\ invoke_result # NoDict
        /\ ~Contains(dt_value, "Unexpected response format from")
        /\ ~Contains(dt_value, "Invalid response format")
        /\ invoke_result.key = "result" => dt_value = invoke_result.val
        /\ invoke_result.key = "error" =>
                dt_value = "Error from " \o agent_name \o ": " \o invoke_result.val
    /\ (pc \in {"dt_done", "done"} /\ invoke_result = NoDict) => sends = 0

InvokeResultWellFormedWitness ==
    /\ pc = "closing"
    /\ sends = 1
    /\ queries = 0
    /\ reply.kind = "dict"
    /\ invoke_result.key = "error"
    /\ Contains(invoke_result.val, "could not extract taskId")
    /\ StartsWith(dt_value, "Error from")

\* C25: the payload has the one key message; the message has role "user",
\* exactly one part, which holds the given text, and a messageId; it has the
\* key taskId (contextId) exactly when a non-empty task id (context id) was
\* passed, with that id as value, and never a taskId or contextId of None.
PayloadShape ==
    pay_pc = "built" =>
        LET msg == payload.message
        IN  /\ DOMAIN payload = {"message"}
            /\ {"role", "parts", "messageId"} \subseteq DOMAIN msg
            /\ DOMAIN msg \subseteq {"role", "parts", "messageId", "taskId", "contextId"}
            /\ msg.role = Str("user")
            /\ Len(msg.parts) = 1
            /\ DOMAIN msg.parts[1] = {"text"}
            /\ msg.parts[1].text = pay_text
            /\ msg.messageId.ty = "str" /\ msg.messageId.s # ""
            /\ "taskId" \in DOMAIN msg <=>
                    (pay_task_id.ty = "str" /\ pay_task_id.s # "")
            /\ "contextId" \in DOMAIN msg <=>
                    (pay_context_id.ty = "str" /\ pay_context_id.s # "")
            /\ "taskId" \in DOMAIN msg => msg.taskId = pay_task_id
            /\ "contextId" \in DOMAIN msg => msg.contextId = pay_context_id

PayloadShapeWitness ==
    /\ pay_pc = "built"
    /\ pay_task_id = Str("t1")
    /\ pay_context_id = None
    /\ DOMAIN payload.message = {"role", "parts", "messageId", "taskId"}
    /\ payload.message.taskId = Str("t1")

\* C26: when main has exited after starting child processes, no child it
\* started is still running, and each child that was killed had been sent
\* terminate first.
AllChildrenStopped ==
    st_pc = "exited" =>
        \A a \in AgentKeys :
            /\ child[a] # "running"
            /\ "kill" \in signals[a] => "terminate" \in signals[a]
            /\ child[a] = "killed" <=> "kill" \in signals[a]

\* an outcome on which the loop returns at any attempt
TerminalOutcome(o) ==
    /\ o.kind = "task"
    /\ \/ o.state = "failed"
       \/ o.state = "completed" /\ o.artifacts.kind = "list" /\ o.artifacts.items # <<>>

\* _poll_task_completion has returned after its last attempt without a
\* terminal outcome
PollExhausted ==
    /\ pc = "closing"
    /\ queries = max_retries
    /\ ~TerminalOutcome(last)

\* C27: when _poll_task_completion has used all its attempts, the error it
\* returned is determined by the outcome of the last attempt alone: the timeout
\* error for pending or running, the polling error with the text of the
\* exception when the last query raised, the unexpected-format error otherwise.
ExhaustionErrorFromLastOnly ==
    PollExhausted =>
        invoke_result =
            IF last.kind = "raise" THEN PollingError(last.exc)
            ELSE IF last.kind = "task" /\ last.state \in {"pending", "running"}
            THEN TimeoutError
            ELSE FormatError

\* the last attempt saw the task running after earlier attempts that raised or
\* had no usable status, and the call ended in the timeout error
ExhaustionErrorFromLastOnlyWitness ==
    /\ PollExhausted
    /\ earlier = "mixed"
    /\ last.kind = "task"
    /\ last.state = "running"
    /\ invoke_result = TimeoutError

\* poll_for_task_completion has ended after MAX_RETRIES query responses, none
\* of which showed completed or failed
UiRetriesUsedUp ==
    /\ ui_pc = "done"
    /\ ui_queries = MAX_RETRIES
    /\ ui_seen \subseteq {"nonsuccess", "noresult", "task"}
    /\ ui_status \notin {"completed", "failed"}

\* C28: when MAX_RETRIES query responses showed neither completed nor failed,
\* the UI poller made exactly 15 queries with one RETRY_DELAY wait between
\* every two consecutive queries (14 waits, none after the last query) and
\* returned the timeout result with success false.
UiTimeoutAfterSpacedQueries ==
    UiRetriesUsedUp =>
        /\ ui_queries = 15
        /\ ui_waits = ui_queries - 1
        /\ ui_results = UiTimeoutResults
        /\ ~ui_results.success

\* the first part text that is a non-empty string, None when there is none
RECURSIVE FirstInlineText(_)
FirstInlineText(parts) ==
    IF parts = <<>> THEN None
    ELSE IF Truthy(GetOrNone(Head(parts))) THEN Head(parts)
    ELSE FirstInlineText(Tail(parts))

\* send_message_to_agent has received a reply that carries inline text
InlineReplyReceived ==
    /\ ui_pc \notin {"connect", "send"}
    /\ ui_reply.kind = "message"
    /\ Truthy(FirstInlineText(ui_reply.parts))

\* C30: a reply that carries inline text, with or without a task handle, ends
\* the run as a success that shows that text, and no task query is issued.
InlineReplyIsImmediateSuccess ==
    InlineReplyReceived =>
        /\ ui_queries = 0
        /\ ui_pc \in {"poll_start", "done"}
        /\ ui_pc = "done" =>
               ui_results = UiResults(FirstInlineText(ui_reply.parts).s, None, TRUE)

\* outcome class of a dict returned by _poll_task_completion; the two errors
\* of a run that used up its attempts without an exception are one class
ClientClass(d) ==
    IF d.key = "result" THEN "success"
    ELSE IF d \in {TimeoutError, FormatError} THEN "timeout"
    ELSE IF StartsWith(d.val, "Task polling error: ") THEN "transport error"
    ELSE "remote failure"

\* outcome class of the results of poll_for_task_completion
UiClass(r) ==
    IF r.success THEN "success"
    ELSE IF r = UiTimeoutResults THEN "timeout"
    ELSE IF StartsWith(r.final_response, "Error polling for task completion: ")
    THEN "transport error"
    ELSE IF StartsWith(r.final_response, CrossMark \o " Task Failed: ")
    THEN "remote failure"
    ELSE "no outcome"

BothPollersDone == ref_client.pc = "done" /\ ref_ui.pc = "done"

\* C29: run with the same number of attempts on the same sequence of get_task
\* outcomes, the UI poller and _poll_task_completion have issued the same
\* number of queries when both have ended, and ended in the same outcome
\* class.
PollersAgree ==
    BothPollersDone =>
        /\ ref_ui.queries = ref_client.queries
        /\ UiClass(ref_ui.result) = ClientClass(ref_client.result)

\* poll_for_task_completion has returned on a completed task with artifacts
UiCompletedWithArtifacts ==
    /\ ui_pc = "done"
    /\ ui_last.kind = "task"
    /\ ui_last.state = "completed"
    /\ ui_last.artifacts.kind = "list"
    /\ ui_last.artifacts.items # <<>>

\* C31: for a completed task with artifacts, results['audio_url'] is the first
\* audio URL in artifact order then part order (None when there is none), and
\* results['final_response'] is the text parts in that order joined with a
\* newline.
UiFirstAudioAndJoinedText ==
    UiCompletedWithArtifacts =>
        /\ ui_results.audio_url =
               IF AudioUrlsOf(ui_last) = <<>> THEN None
               ELSE Str(Head(AudioUrlsOf(ui_last)))
        /\ ui_results.final_response = Join("\n", TextsOf(ui_last))

\* poll_for_task_completion was called and has returned
UiPollReturned == ui_pc = "done" /\ Truthy(ui_task_id)

\* the stored immediate response was returned: no query was issued
UiImmediateConsumed == UiPollReturned /\ ui_queries = 0

UiObservedCompleted == ui_last.kind = "task" /\ ui_last.state = "completed"

\* C32: poll_for_task_completion returns success = true exactly when it used a
\* stored immediate response or saw the task completed; otherwise success is
\* false and final_response is not empty.
UiSuccessIffResolved ==
    UiPollReturned =>
        /\ ui_results.success <=> (UiImmediateConsumed \/ UiObservedCompleted)
        /\ ~ui_results.success => ui_results.final_response # ""

ImmediateResponseUsedOnce ==
    (ui_pc = "done" /\ Truthy(ui_task_id)) =>
        /\ ui_task_id.s \notin DOMAIN immediate_responses
        /\ ui_polls >= 2 => ui_queries >= 1

\* the reply had inline text, and the second poll of its task id has ended
ImmediateResponseUsedOnceWitness ==
    /\ ui_pc = "done"
    /\ Truthy(FirstInlineText(ui_reply.parts))
    /\ ui_polls = 2
    /\ ui_queries >= 1

\* delegate_task has ended for a known agent whose client was constructed
DelegateEndedWithClient ==
    /\ pc \in {"dt_done", "done"}
    /\ KnownAgent(agent_name)
    /\ clients_created = 1

\* C35: a call of delegate_task with a known agent name closes the client it
\* created exactly once, before it returns, on every path, and issues no
\* request on the client once it is closed.
ClientClosedOnceBeforeReturn ==
    /\ [](/\ clients_created <= 1
          /\ clients_closed <= clients_created
          /\ DelegateEndedWithClient => clients_closed = 1
          /\ pc \in {"card", "send", "poll_query", "poll_sleep", "closing"} =>
                 clients_closed = 0)
    /\ [][clients_closed >= 1 =>
            (card_fetches' = card_fetches /\ sends' = sends /\ queries' = queries)]_vars

\* the card fetch raised inside invoke_agent, and the client was closed before
\* delegate_task returned its error string
ClientClosedOnceBeforeReturnWitness ==
    /\ pc = "dt_done"
    /\ clients_created = 1
    /\ clients_closed = 1
    /\ card_fetches = 1
    /\ sends = 0
    /\ dt_out.kind = "str"
    /\ StartsWith(dt_out.s, "Error from ")

\* the one event call i enqueued
SentMessage(i) == event_queue[i][1]

\* C36: every call of execute on the Notion and ElevenLabs executors enqueues
\* exactly one agent text message that carries the request's task id and
\* context id, the final response text when the run succeeds and an error
\* text when a step (input, session, agent run) raises; execute itself does
\* not raise, and nothing is enqueued before the call ends.
ExecuteEnqueuesOneMessage ==
    \A i \in ExecCalls :
        /\ ex_out[i] # "raised"
        /\ ex_pc[i] # "done" => event_queue[i] = <<>>
        /\ ex_pc[i] = "done" =>
            /\ ex_out[i] = "returned"
            /\ Len(event_queue[i]) = 1
            /\ SentMessage(i).kind = "message"
            /\ SentMessage(i).role = "agent"
            /\ SentMessage(i).task_id = ex_context[i].task_id
            /\ SentMessage(i).context_id = ex_context[i].context_id
            /\ IF ex_raised[i] = ""
               THEN /\ SentMessage(i).text \in
                           (ExecRunTexts \ {""}) \cup {DefaultResponse(ex_executor)}
                    /\ ~StartsWith(SentMessage(i).text, "Error ")
               ELSE /\ StartsWith(SentMessage(i).text, "Error ")
                    /\ Contains(SentMessage(i).text, "boom")

\* two calls for one task have ended, one with a raising agent run and one
\* with a final text
ExecuteEnqueuesOneMessageWitness ==
    \E i, j \in ExecCalls :
        /\ ex_pc[i] = "done" /\ ex_raised[i] = "run"
        /\ ex_pc[j] = "done" /\ ex_raised[j] = ""
        /\ Truthy(ex_context[i].task_id)
        /\ ex_context[i].task_id = ex_context[j].task_id
        /\ Truthy(ex_context[j].context_id)
        /\ SentMessage(j).text = "answer"

\* C37: for any interleaving of concurrent execute calls that carry the same
\* task id, the ADK session for that id is created at most once.
SessionCreatedAtMostOnce ==
    \A sid \in DOMAIN session_creates : session_creates[sid] <= 1

\* the loop of the test client ended at a final status with no query after
\* it and a wait after each attempt before it
TestStoppedAtFirstFinal ==
    /\ tc_terminals = 1
    /\ TestFinal(tc_status)
    /\ tc_queries = tc_attempt + 1
    /\ tc_queries <= TestMaxRetries(tc_client)
    /\ tc_waits = tc_queries - 1

\* the loop of the test client used all its attempts, waiting after each
\* but the last
TestUsedAllAttempts ==
    /\ tc_terminals = 0
    /\ ~TestFinal(tc_status)
    /\ tc_queries = TestMaxRetries(tc_client)
    /\ tc_waits = TestMaxRetries(tc_client) - 1

\* every wait of the test client lasts retry_delay seconds
TestWaitsAreDelays == tc_slept = tc_waits * TestRetryDelay(tc_client)

====
